---- MODULE Spec2Model ----
(***************************************************************************)
(* The session storage container of realworld_dummy_server.py:            *)
(* _StorageContainer (indexed min-heap, per-address session lists, token  *)
(* bindings), the request entry point that resolves a session, and the    *)
(* register / login handlers that bind tokens and re-point sessions.      *)
(*                                                                         *)
(* Conventions.                                                            *)
(*  - Heap positions are Python's 0-based indices; At/SetAt translate to    *)
(*    TLA+ sequences.                                                      *)
(*  - A heap item [priority, obj_id, data, index, client_ip] is the record *)
(*    [p, id, data, idx, ip]; data is the identity of an InMemoryStorage   *)
(*    object (a key of storages).                                          *)
(*  - A string holding an address is the record [parts, sfx]: the string   *)
(*    is ":".join(parts) + sfx, with sfx one of "", "/64", "::/64".        *)
(*    None and "" (both falsy, both skipped by `if not client_ip`) are     *)
(*    the one value NoIp.                                                  *)
(*  - Python strings of different kinds are tagged tuples, so that any two *)
(*    can be compared: a session id minted by uuid.uuid4() is <<"uuid", n>>*)
(*    with n the next value of uuid_count (never seen before), a token is  *)
(*    <<"token", id, sec>>.                                                *)
(*    None is the empty tuple.                                             *)
(*  - time_ns() is read as a strictly increasing clock.                    *)
(*  - An operation that raises leaves the mutations it made before the     *)
(*    raise; the exception's name is carried in the field exc.             *)
(*  - touched, registered and last are history variables: the clock value  *)
(*    of each live session's creation or last touch, the credentials a     *)
(*    register request stored, and what the last operation was given and   *)
(*    what it did (result, exception, evictions in order).                 *)
(*  - model and links are one InMemoryModel and one InMemoryLinks object   *)
(*    used on their own, as their tests use them; data_file is the content *)
(*    of the file at DATA_FILE_PATH, or that there is no file. For the     *)
(*    objects of model, touched holds the clock value of each object's add *)
(*    or last successful get.                                              *)
(*  - Definitions named ..._Mutant are faulty variants of the operator     *)
(*    they precede, used to show that a property can tell them apart.      *)
(***************************************************************************)
EXTENDS Integers, Sequences, FiniteSets, TLC

VARIABLES heap, index_map, ip_to_sessions, jwt_to_session, jwt_to_session_order,
          storages, disable_isolation_mode, clock, now_s, uuid_count, store_count, touched,
          registered, last, model, links, data_file

vars == <<heap, index_map, ip_to_sessions, jwt_to_session, jwt_to_session_order,
          storages, disable_isolation_mode, clock, now_s, uuid_count, store_count, touched,
          registered, last, model, links, data_file>>

\* ------------------------------------------------------------------ configuration
MAX_SESSIONS == 3
MAX_SESSIONS_PER_IP == 2
MAX_USERS_PER_SESSION == 2
MAX_FOLLOWS_PER_SESSION == 2

\* ------------------------------------------------------------------ bounds
MaxClock == 7
MaxServerClock == 5
MaxSecond == 1
MaxHeapIds == 4
MaxJwtClock == 4
MaxTokens == 4
MaxCount == 3
MaxModelClock == 5
MaxLinkCount == 3
MaxLinkId == 2
MaxSaveClock == 4
MaxStoreAdds == 2
MaxGroups == 8
MaxUpdateClock == 5
MinPriority == 0 - 1
MaxPriority == 1
Priorities == MinPriority..MaxPriority

\* ------------------------------------------------------------------ values
None == <<>>
Uuid(n) == <<"uuid", n>>
\* every InMemoryStorage() the same object
Store_Mutant(n) == <<"store", 1>>
Store(n) == <<"store", n>>
NoIp == [parts |-> <<"">>, sfx |-> ""]
V4A == [parts |-> <<"10.0.0.1">>, sfx |-> ""]
V6A == [parts |-> <<"2001", "db8", "85a3", "8d3", "1319", "8a2e", "370", "7348">>, sfx |-> ""]
ClientIps == {V4A, V6A}
NoExc == "none"
People == {[email |-> "a@x", username |-> "a"]}
GoodPassword == "p1"
Passwords == {GoodPassword, "p2"}

\* ------------------------------------------------------------------ dict helpers
MapPut(f, k, v) == [x \in (DOMAIN f) \cup {k} |-> IF x = k THEN v ELSE f[x]]
MapDel(f, k) == [x \in (DOMAIN f) \ {k} |-> f[x]]
EmptyMap == [x \in {} |-> None]
Filter(s, x) == SelectSeq(s, LAMBDA e : e # x)
SeqSet(s) == {s[i] : i \in 1..Len(s)}

\* ------------------------------------------------------------------ heap + index_map
At(h, i) == h[i + 1]
SetAt(h, i, x) == [h EXCEPT ![i + 1] = x]

\* faulty variant: exchanges the two items and leaves index_map as it was
_swap_Mutant(c, i, j) ==
    LET a == At(c.heap, i)
        b == At(c.heap, j)
    IN [c EXCEPT !.heap = SetAt(SetAt(c.heap, i, [b EXCEPT !.idx = i]), j, [a EXCEPT !.idx = j])]

_swap(c, i, j) ==
    LET a == At(c.heap, i)
        b == At(c.heap, j)
    IN [c EXCEPT !.index_map = MapPut(MapPut(c.index_map, a.id, j), b.id, i),
                 !.heap = SetAt(SetAt(c.heap, i, [b EXCEPT !.idx = i]), j, [a EXCEPT !.idx = j])]

RECURSIVE _sift_up(_, _)
_sift_up(c, index) ==
    IF index > 0
    THEN LET parent_index == (index - 1) \div 2
         IN IF At(c.heap, index).p >= At(c.heap, parent_index).p
            THEN c
            ELSE _sift_up(_swap(c, index, parent_index), parent_index)
    ELSE c

\* faulty variant: never looks at the right child
RECURSIVE _sift_down_Mutant(_, _)
_sift_down_Mutant(c, index) ==
    LET left_child == 2 * index + 1
        smallest == IF left_child < Len(c.heap) /\ At(c.heap, left_child).p < At(c.heap, index).p
                    THEN left_child ELSE index
    IN IF smallest = index THEN c ELSE _sift_down_Mutant(_swap(c, index, smallest), smallest)

RECURSIVE _sift_down(_, _)
_sift_down(c, index) ==
    LET left_child == 2 * index + 1
        right_child == 2 * index + 2
        s1 == IF left_child < Len(c.heap) /\ At(c.heap, left_child).p < At(c.heap, index).p
              THEN left_child ELSE index
        smallest == IF right_child < Len(c.heap) /\ At(c.heap, right_child).p < At(c.heap, s1).p
                    THEN right_child ELSE s1
    IN IF smallest = index THEN c ELSE _sift_down(_swap(c, index, smallest), smallest)

\* faulty variant: appends the item and does not sift it up
_push_Mutant(c, priority, obj_id, data, client_ip) ==
    LET index == Len(c.heap)
        item == [p |-> priority, id |-> obj_id, data |-> data, idx |-> index, ip |-> client_ip]
    IN [c EXCEPT !.heap = Append(c.heap, item),
                 !.index_map = MapPut(c.index_map, obj_id, index)]

_push(c, priority, obj_id, data, client_ip) ==
    LET index == Len(c.heap)
        item == [p |-> priority, id |-> obj_id, data |-> data, idx |-> index, ip |-> client_ip]
    IN _sift_up([c EXCEPT !.heap = Append(c.heap, item),
                          !.index_map = MapPut(c.index_map, obj_id, index)], index)

\* faulty variant: removes, with the root, every item that shares the root's payload
_pop_Mutant(c) ==
    IF Len(c.heap) = 0 THEN [c EXCEPT !.popped = <<>>]
    ELSE LET root_item == At(c.heap, 0)
             kept == SelectSeq(c.heap, LAMBDA item : item.data # root_item.data)
             h == [i \in 1..Len(kept) |-> [kept[i] EXCEPT !.idx = i - 1]]
         IN [c EXCEPT !.heap = h,
                      !.index_map = [x \in {h[i].id : i \in 1..Len(h)} |->
                                        (CHOOSE i \in 1..Len(h) : h[i].id = x) - 1],
                      !.popped = <<root_item>>]

\* _pop returns the popped item in c.popped (<<>> for None)
_pop(c) ==
    IF Len(c.heap) = 0 THEN [c EXCEPT !.popped = <<>>]
    ELSE LET root_item == At(c.heap, 0) IN
         IF root_item.id \notin DOMAIN c.index_map THEN [c EXCEPT !.exc = "KeyError"]
         ELSE LET im == MapDel(c.index_map, root_item.id) IN
              IF Len(c.heap) = 1
              THEN [c EXCEPT !.index_map = im, !.heap = <<>>, !.popped = <<root_item>>]
              ELSE LET last_item == c.heap[Len(c.heap)]
                       h == SetAt(SubSeq(c.heap, 1, Len(c.heap) - 1), 0, [last_item EXCEPT !.idx = 0])
                   IN [_sift_down([c EXCEPT !.heap = h, !.index_map = MapPut(im, last_item.id, 0)], 0)
                         EXCEPT !.popped = <<root_item>>]

\* faulty variant: stores the new priority and leaves the item where it is
_update_priority_Mutant(c, obj_id, new_priority) ==
    IF obj_id \notin DOMAIN c.index_map THEN [c EXCEPT !.exc = "ValueError"]
    ELSE LET index == c.index_map[obj_id]
         IN [c EXCEPT !.heap = SetAt(c.heap, index, [At(c.heap, index) EXCEPT !.p = new_priority])]

\* _update_priority that inserts an id it does not find
_update_priority_UpsertMutant(c, obj_id, new_priority) ==
    IF obj_id \notin DOMAIN c.index_map THEN _push(c, new_priority, obj_id, None, NoIp)
    ELSE LET index == c.index_map[obj_id]
             old_priority == At(c.heap, index).p
             c1 == [c EXCEPT !.heap = SetAt(c.heap, index, [At(c.heap, index) EXCEPT !.p = new_priority])]
         IN IF new_priority < old_priority THEN _sift_up(c1, index)
            ELSE IF new_priority > old_priority THEN _sift_down(c1, index)
            ELSE c1

_update_priority(c, obj_id, new_priority) ==
    IF obj_id \notin DOMAIN c.index_map THEN [c EXCEPT !.exc = "ValueError"]
    ELSE LET index == c.index_map[obj_id]
             old_priority == At(c.heap, index).p
             c1 == [c EXCEPT !.heap = SetAt(c.heap, index, [At(c.heap, index) EXCEPT !.p = new_priority])]
         IN IF new_priority < old_priority THEN _sift_up(c1, index)
            ELSE IF new_priority > old_priority THEN _sift_down(c1, index)
            ELSE c1

\* ------------------------------------------------------------------ ip <-> sessions
HasColon(ip) == Len(ip.parts) > 1 \/ ip.sfx = "::/64"

\* _normalize_ip_for_limiting keeping five groups of an IPv6 address
_normalize_ip_for_limiting_Mutant(ip) ==
    IF ip.sfx # "" THEN ip
    ELSE IF HasColon(ip)
         THEN IF Len(ip.parts) >= 4
              THEN [parts |-> SubSeq(ip.parts, 1, IF Len(ip.parts) >= 5 THEN 5 ELSE 4), sfx |-> "::/64"]
              ELSE [ip EXCEPT !.sfx = "/64"]
         ELSE ip

_normalize_ip_for_limiting(ip) ==
    IF ip.sfx # "" THEN ip
    ELSE IF HasColon(ip)
         THEN IF Len(ip.parts) >= 4
              THEN [parts |-> SubSeq(ip.parts, 1, 4), sfx |-> "::/64"]
              ELSE [ip EXCEPT !.sfx = "/64"]
         ELSE ip

\* _handle_client_ip_and_session_eviction that keeps a list it has emptied
_handle_client_ip_and_session_eviction_Mutant(c, identifier, client_ip) ==
    IF client_ip = NoIp THEN c
    ELSE LET normalized_ip == _normalize_ip_for_limiting(client_ip) IN
         IF normalized_ip \in DOMAIN c.ip_to_sessions
         THEN [c EXCEPT !.ip_to_sessions[normalized_ip] = Filter(@, identifier)]
         ELSE c

_handle_client_ip_and_session_eviction(c, identifier, client_ip) ==
    IF client_ip = NoIp THEN c
    ELSE LET normalized_ip == _normalize_ip_for_limiting(client_ip) IN
         IF normalized_ip \in DOMAIN c.ip_to_sessions
         THEN LET l == Filter(c.ip_to_sessions[normalized_ip], identifier) IN
              IF Len(l) = 0
              THEN [c EXCEPT !.ip_to_sessions = MapDel(@, normalized_ip)]
              ELSE [c EXCEPT !.ip_to_sessions[normalized_ip] = l]
         ELSE c

\* the while loop of _handle_client_ip_and_session_addition
RECURSIVE addition_evict_loop(_, _)
addition_evict_loop(c, normalized_ip) ==
    IF Len(c.ip_to_sessions[normalized_ip]) > MAX_SESSIONS_PER_IP
    THEN LET session_id_to_remove == c.ip_to_sessions[normalized_ip][1]
             c1 == _update_priority(c, session_id_to_remove, 0)
             c2 == _pop(c1)
         IN IF c1.exc # NoExc THEN c1
            ELSE IF c2.exc # NoExc THEN c2
            ELSE addition_evict_loop(
                   [c2 EXCEPT !.ip_to_sessions[normalized_ip] = Tail(@),
                              !.log = Append(@, [kind |-> "address", front |-> session_id_to_remove,
                                                 id |-> c2.popped[1].id, data |-> c2.popped[1].data])],
                   normalized_ip)
    ELSE c

_handle_client_ip_and_session_addition(c, identifier, client_ip) ==
    IF client_ip = NoIp THEN c
    ELSE LET normalized_ip == _normalize_ip_for_limiting(client_ip) IN
         IF normalized_ip \notin DOMAIN c.ip_to_sessions
         THEN [c EXCEPT !.ip_to_sessions = MapPut(@, normalized_ip, <<identifier>>)]
         ELSE addition_evict_loop(
                [c EXCEPT !.ip_to_sessions[normalized_ip] = Append(@, identifier)], normalized_ip)

\* the while loop of _handle_client_ip_and_session_reattribution
RECURSIVE reattribution_evict_loop(_, _)
reattribution_evict_loop(c, normalized_client_ip) ==
    IF Len(c.ip_to_sessions[normalized_client_ip]) > MAX_SESSIONS_PER_IP
    THEN LET front == c.ip_to_sessions[normalized_client_ip][1]
             c1 == _update_priority(c, front, 0)
             c2 == _pop(c1)
         IN IF c1.exc # NoExc THEN c1
            ELSE IF c2.exc # NoExc THEN c2
            ELSE reattribution_evict_loop(
                   [c2 EXCEPT !.ip_to_sessions[normalized_client_ip] = Tail(@),
                              !.log = Append(@, [kind |-> "address", front |-> front,
                                                 id |-> c2.popped[1].id, data |-> c2.popped[1].data])],
                   normalized_client_ip)
    ELSE c

_handle_client_ip_and_session_reattribution(c, session_id, normalized_saved_ip, normalized_client_ip) ==
    LET index == c.index_map[session_id]
        c1 == [c EXCEPT !.heap = SetAt(@, index, [At(@, index) EXCEPT !.ip = normalized_client_ip])]
        c2 == IF normalized_saved_ip # NoIp /\ normalized_saved_ip \in DOMAIN c1.ip_to_sessions
              THEN LET l == Filter(c1.ip_to_sessions[normalized_saved_ip], session_id) IN
                   IF Len(l) = 0
                   THEN [c1 EXCEPT !.ip_to_sessions = MapDel(@, normalized_saved_ip)]
                   ELSE [c1 EXCEPT !.ip_to_sessions[normalized_saved_ip] = l]
              ELSE c1
        old == IF normalized_client_ip \in DOMAIN c2.ip_to_sessions
               THEN c2.ip_to_sessions[normalized_client_ip] ELSE <<>>
        c3 == [c2 EXCEPT !.ip_to_sessions =
                  MapPut(@, normalized_client_ip, Append(Filter(old, session_id), session_id))]
    IN reattribution_evict_loop(c3, normalized_client_ip)

_handle_client_ip_and_session_priority(c, session_id, client_ip) ==
    IF client_ip = NoIp THEN c
    ELSE LET normalized_ip == _normalize_ip_for_limiting(client_ip)
             saved_client_ip == At(c.heap, c.index_map[session_id]).ip
         IN IF saved_client_ip = normalized_ip
            THEN IF normalized_ip \notin DOMAIN c.ip_to_sessions
                 THEN [c EXCEPT !.ip_to_sessions = MapPut(@, normalized_ip, <<session_id>>)]
                 ELSE [c EXCEPT !.ip_to_sessions[normalized_ip] = Append(Filter(@, session_id), session_id)]
            ELSE _handle_client_ip_and_session_reattribution(c, session_id, saved_client_ip, normalized_ip)

\* ------------------------------------------------------------------ external methods
push(c, priority, session_id, data, client_ip) ==
    _handle_client_ip_and_session_addition(_push(c, priority, session_id, data, client_ip),
                                           session_id, client_ip)

pop(c) ==
    LET c1 == _pop(c) IN
    IF c1.exc # NoExc \/ c1.popped = <<>> THEN c1
    ELSE _handle_client_ip_and_session_eviction(c1, c1.popped[1].id, c1.popped[1].ip)

update_priority(c, obj_id, new_priority, client_ip) ==
    LET c1 == _update_priority(c, obj_id, new_priority) IN
    IF c1.exc # NoExc THEN c1
    ELSE _handle_client_ip_and_session_priority(c1, obj_id, client_ip)

\* ------------------------------------------------------------------ InMemoryModel
\* objects is the dict in insertion order: a sequence of records, each with its id
MAX_ID_LEN == 1

RECURSIVE DecLen(_)
DecLen(n) == IF n < 10 THEN 1 ELSE 1 + DecLen(n \div 10)

InMemoryModel(max_count) ==
    [max_count |-> max_count, objects |-> <<>>, last_accessed_ids |-> <<>>, current_id_counter |-> 1]

ModelValues(m) == m.objects
ModelKeys(m) == {m.objects[i].id : i \in 1..Len(m.objects)}

\* add that never evicts
InMemoryModel_add_Mutant(m, obj) ==
    LET new_id == ToString(m.current_id_counter)
        o == [obj EXCEPT !.id = new_id]
    IN [m |-> [m EXCEPT !.objects = Append(@, o), !.current_id_counter = @ + 1,
                        !.last_accessed_ids = Append(@, new_id)],
        obj |-> o, exc |-> NoExc]

\* add that numbers the new object after the number of objects held
InMemoryModel_add_ReuseMutant(m, obj) ==
    LET new_id == ToString(Len(m.objects) + 1)
        o == [obj EXCEPT !.id = new_id]
        objs == IF new_id \in ModelKeys(m)
                THEN [i \in 1..Len(m.objects) |->
                        IF m.objects[i].id = new_id THEN o ELSE m.objects[i]]
                ELSE Append(m.objects, o)
        m1 == [m EXCEPT !.objects = objs, !.current_id_counter = @ + 1]
    IN IF Len(objs) > m.max_count
       THEN LET evicted_id == m.last_accessed_ids[1] IN
            [m |-> [m1 EXCEPT !.objects = SelectSeq(objs, LAMBDA e : e.id # evicted_id),
                              !.last_accessed_ids = Append(Tail(m.last_accessed_ids), new_id)],
             obj |-> o, exc |-> NoExc]
       ELSE [m |-> [m1 EXCEPT !.last_accessed_ids = Append(@, new_id)], obj |-> o, exc |-> NoExc]

\* returns [m, obj, exc]
InMemoryModel_add(m, obj) ==
    IF DecLen(m.current_id_counter) > MAX_ID_LEN
    THEN [m |-> m, obj |-> obj, exc |-> "ValueError"]
    ELSE LET new_id == ToString(m.current_id_counter)
             o == [obj EXCEPT !.id = new_id]
             objs == IF new_id \in ModelKeys(m)
                     THEN [i \in 1..Len(m.objects) |->
                             IF m.objects[i].id = new_id THEN o ELSE m.objects[i]]
                     ELSE Append(m.objects, o)
             m1 == [m EXCEPT !.objects = objs, !.current_id_counter = @ + 1]
         IN IF Len(objs) > m.max_count
            THEN LET evicted_id == m.last_accessed_ids[1] IN
                 [m |-> [m1 EXCEPT !.objects = SelectSeq(objs, LAMBDA e : e.id # evicted_id),
                                   !.last_accessed_ids = Append(Tail(m.last_accessed_ids), new_id)],
                  obj |-> o, exc |-> NoExc]
            ELSE [m |-> [m1 EXCEPT !.last_accessed_ids = Append(@, new_id)], obj |-> o, exc |-> NoExc]

\* an id argument is an int <<"int", n>>, a str <<"str", s>> or a value of another type
IntId(n) == <<"int", n>>
StrId(s) == <<"str", s>>

\* normalize_id without the length test
normalize_id_Mutant(value) ==
    IF Len(value) = 2 /\ value[1] = "int" THEN [value |-> ToString(value[2]), exc |-> NoExc]
    ELSE IF Len(value) = 2 /\ value[1] = "str" THEN [value |-> value[2], exc |-> NoExc]
    ELSE [value |-> None, exc |-> "ValueError"]

\* returns [value, exc]
normalize_id(value) ==
    IF Len(value) = 2 /\ value[1] \in {"int", "str"}
    THEN LET str == IF value[1] = "int" THEN ToString(value[2]) ELSE value[2] IN
         IF Len(str) > MAX_ID_LEN THEN [value |-> None, exc |-> "ValueError"]
         ELSE [value |-> str, exc |-> NoExc]
    ELSE [value |-> None, exc |-> "ValueError"]

\* get that returns the object without recording the access
InMemoryModel_get_Mutant(m, _id) ==
    LET n == normalize_id(_id) IN
    IF n.exc # NoExc THEN [m |-> m, ret |-> <<>>, exc |-> n.exc]
    ELSE IF n.value \notin ModelKeys(m) THEN [m |-> m, ret |-> <<>>, exc |-> NoExc]
    ELSE [m |-> m, ret |-> <<CHOOSE o \in SeqSet(m.objects) : o.id = n.value>>, exc |-> NoExc]

\* returns [m, ret, exc]: ret is <<obj>> or <<>> for None
InMemoryModel_get(m, _id) ==
    LET n == normalize_id(_id) IN
    IF n.exc # NoExc THEN [m |-> m, ret |-> <<>>, exc |-> n.exc]
    ELSE IF n.value \notin ModelKeys(m) THEN [m |-> m, ret |-> <<>>, exc |-> NoExc]
    ELSE [m |-> [m EXCEPT !.last_accessed_ids = Append(Filter(@, n.value), n.value)],
          ret |-> <<CHOOSE o \in SeqSet(m.objects) : o.id = n.value>>, exc |-> NoExc]

\* delete that leaves last_accessed_ids as it was
InMemoryModel_delete_Mutant(m, _id) ==
    LET n == normalize_id(_id) IN
    IF n.exc # NoExc THEN [m |-> m, ret |-> FALSE, exc |-> n.exc]
    ELSE IF n.value \in ModelKeys(m)
    THEN [m |-> [m EXCEPT !.objects = SelectSeq(@, LAMBDA o : o.id # n.value)],
          ret |-> TRUE, exc |-> NoExc]
    ELSE [m |-> m, ret |-> FALSE, exc |-> NoExc]

\* returns [m, ret, exc]: ret is the boolean returned
InMemoryModel_delete(m, _id) ==
    LET n == normalize_id(_id) IN
    IF n.exc # NoExc THEN [m |-> m, ret |-> FALSE, exc |-> n.exc]
    ELSE IF n.value \in ModelKeys(m)
    THEN [m |-> [m EXCEPT !.objects = SelectSeq(@, LAMBDA o : o.id # n.value),
                          !.last_accessed_ids = Filter(@, n.value)],
          ret |-> TRUE, exc |-> NoExc]
    ELSE [m |-> m, ret |-> FALSE, exc |-> NoExc]

\* ------------------------------------------------------------------ InMemoryLinks
\* links is the list of (source, target) tuples
InMemoryLinks(max_count) == [max_count |-> max_count, links |-> <<>>]

\* articles and comments are InMemoryModels like users, favorites an InMemoryLinks like
\* follows, each saved and loaded by the same lines: users and follows stand for them
InMemoryStorage ==
    [users |-> InMemoryModel(MAX_USERS_PER_SESSION),
     follows |-> InMemoryLinks(MAX_FOLLOWS_PER_SESSION)]

IndexOf(seq, x) == CHOOSE i \in 1..Len(seq) : seq[i] = x /\ \A j \in 1..(i - 1) : seq[j] # x
RemoveAt(seq, i) == [j \in 1..(Len(seq) - 1) |-> IF j < i THEN seq[j] ELSE seq[j + 1]]

\* add that appends without looking for the pair
InMemoryLinks_add_Mutant(l, source, target) ==
    LET s == normalize_id(source)
        t == normalize_id(target)
        link == <<s.value, t.value>>
    IN IF s.exc # NoExc \/ t.exc # NoExc THEN [l |-> l, exc |-> "ValueError"]
       ELSE IF l.max_count = 0 THEN [l |-> l, exc |-> NoExc]
       ELSE IF Len(l.links) >= l.max_count
       THEN [l |-> [l EXCEPT !.links = Append(SubSeq(@, 2, Len(@)), link)], exc |-> NoExc]
       ELSE [l |-> [l EXCEPT !.links = Append(@, link)], exc |-> NoExc]

\* add that makes room even for a pair it already holds
InMemoryLinks_add_EvictMutant(l, source, target) ==
    LET s == normalize_id(source)
        t == normalize_id(target)
        link == <<s.value, t.value>>
    IN IF s.exc # NoExc \/ t.exc # NoExc THEN [l |-> l, exc |-> "ValueError"]
       ELSE IF l.max_count = 0 THEN [l |-> l, exc |-> NoExc]
       ELSE IF Len(l.links) >= l.max_count
       THEN [l |-> [l EXCEPT !.links = Append(Filter(SubSeq(@, 2, Len(@)), link), link)], exc |-> NoExc]
       ELSE IF link \in SeqSet(l.links)
       THEN [l |-> [l EXCEPT !.links = Append(RemoveAt(@, IndexOf(@, link)), link)], exc |-> NoExc]
       ELSE [l |-> [l EXCEPT !.links = Append(@, link)], exc |-> NoExc]

\* the operations return [l, exc]; normalize_id of the first argument is evaluated first
InMemoryLinks_add(l, source, target) ==
    LET s == normalize_id(source)
        t == normalize_id(target)
        link == <<s.value, t.value>>
    IN IF s.exc # NoExc \/ t.exc # NoExc THEN [l |-> l, exc |-> "ValueError"]
       ELSE IF l.max_count = 0 THEN [l |-> l, exc |-> NoExc]
       ELSE IF link \in SeqSet(l.links)
       THEN [l |-> [l EXCEPT !.links = Append(RemoveAt(@, IndexOf(@, link)), link)], exc |-> NoExc]
       ELSE IF Len(l.links) >= l.max_count
       THEN [l |-> [l EXCEPT !.links = Append(SubSeq(@, 2, Len(@)), link)], exc |-> NoExc]
       ELSE [l |-> [l EXCEPT !.links = Append(@, link)], exc |-> NoExc]

InMemoryLinks_remove(l, source, target) ==
    LET s == normalize_id(source)
        t == normalize_id(target)
        link == <<s.value, t.value>>
    IN IF s.exc # NoExc \/ t.exc # NoExc THEN [l |-> l, exc |-> "ValueError"]
       ELSE IF link \in SeqSet(l.links)
       THEN [l |-> [l EXCEPT !.links = RemoveAt(@, IndexOf(@, link))], exc |-> NoExc]
       ELSE [l |-> l, exc |-> NoExc]

\* delete_source that also drops the pairs whose target is the id
InMemoryLinks_delete_source_Mutant(l, source_to_delete) ==
    LET n == normalize_id(source_to_delete) IN
    IF Len(l.links) = 0 THEN [l |-> l, exc |-> NoExc]
    ELSE IF n.exc # NoExc THEN [l |-> l, exc |-> n.exc]
    ELSE [l |-> [l EXCEPT !.links = SelectSeq(@, LAMBDA e : e[1] # n.value /\ e[2] # n.value)],
          exc |-> NoExc]

\* the comprehension calls normalize_id once per pair: an empty list never calls it
InMemoryLinks_delete_source(l, source_to_delete) ==
    LET n == normalize_id(source_to_delete) IN
    IF Len(l.links) = 0 THEN [l |-> l, exc |-> NoExc]
    ELSE IF n.exc # NoExc THEN [l |-> l, exc |-> n.exc]
    ELSE [l |-> [l EXCEPT !.links = SelectSeq(@, LAMBDA e : e[1] # n.value)], exc |-> NoExc]

InMemoryLinks_delete_target(l, target_to_delete) ==
    LET n == normalize_id(target_to_delete) IN
    IF Len(l.links) = 0 THEN [l |-> l, exc |-> NoExc]
    ELSE IF n.exc # NoExc THEN [l |-> l, exc |-> n.exc]
    ELSE [l |-> [l EXCEPT !.links = SelectSeq(@, LAMBDA e : e[2] # n.value)], exc |-> NoExc]

\* ------------------------------------------------------------------ users and tokens
hash_password(password) == <<"sha256", password>>
generate_token(user_id, seconds) == <<"token", user_id, seconds>>

\* next(..., None): <<>> for None, else the one-element sequence holding the first match
get_user_by_email(email, storage) ==
    LET users == ModelValues(storage.users)
        idx == {i \in 1..Len(users) : users[i].email = email}
    IN IF idx = {} THEN <<>> ELSE <<users[CHOOSE i \in idx : \A j \in idx : i <= j]>>

get_user_by_username(username, storage) ==
    LET users == ModelValues(storage.users)
        idx == {i \in 1..Len(users) : users[i].username = username}
    IN IF idx = {} THEN <<>> ELSE <<users[CHOOSE i \in idx : \A j \in idx : i <= j]>>

\* ------------------------------------------------------------------ get_storage and tokens
NewContainerCall(disabled, h, im, ips, j2s, jorder) ==
    [DISABLE_ISOLATION_MODE |-> disabled,
     heap |-> h, index_map |-> im, ip_to_sessions |-> ips, jwt_to_session |-> j2s,
     jwt_to_session_order |-> jorder, exc |-> NoExc, popped |-> <<>>, log |-> <<>>,
     ret |-> <<>>, created |-> FALSE, target |-> None, session |-> None]

\* with isolation disabled heap[0] is the one InMemoryStorage itself, not an item list:
\* it is held as an item of which only the data field means anything
SharedStorageItem(data) == [p |-> 0, id |-> None, data |-> data, idx |-> 0, ip |-> NoIp]

\* the session id get_storage resolves through the token, None when it resolves none
\* the token consulted even when a cookie is given
session_id_from_token_Mutant(c, session_id_from_cookie, jwt_token) ==
    IF jwt_token # None
       /\ jwt_token \in DOMAIN c.jwt_to_session
       /\ c.jwt_to_session[jwt_token] \in DOMAIN c.index_map
    THEN c.jwt_to_session[jwt_token] ELSE None

session_id_from_token(c, session_id_from_cookie, jwt_token) ==
    IF session_id_from_cookie = None /\ jwt_token # None
       /\ jwt_token \in DOMAIN c.jwt_to_session
       /\ c.jwt_to_session[jwt_token] \in DOMAIN c.index_map
    THEN c.jwt_to_session[jwt_token] ELSE None

\* the order list get_storage writes back when it resolved target_session_id through jwt_token:
\* the entries are tokens and the test compares them with the session id
\* the test comparing them with the token, which moves the token to the end
reordered_jwt_to_session_order_Mutant(order, target_session_id, jwt_token) ==
    Append(Filter(order, jwt_token), jwt_token)

reordered_jwt_to_session_order(order, target_session_id, jwt_token) ==
    Append(Filter(order, target_session_id), jwt_token)

get_storage(c, session_id_from_cookie, client_ip, jwt_token, now, fresh_uuid, fresh_storage) ==
    IF c.DISABLE_ISOLATION_MODE
    THEN LET c1 == IF Len(c.heap) = 0
                   THEN [c EXCEPT !.heap = <<SharedStorageItem(fresh_storage)>>, !.created = TRUE]
                   ELSE c
         IN [c1 EXCEPT !.ret = <<None, At(c1.heap, 0).data>>]
    ELSE
    LET from_token == session_id_from_token(c, session_id_from_cookie, jwt_token)
        use_token == from_token # None
        c0 == IF use_token
              THEN [c EXCEPT !.jwt_to_session_order = reordered_jwt_to_session_order(@, from_token, jwt_token)]
              ELSE c
        target_session_id == IF use_token THEN from_token
                             ELSE IF session_id_from_cookie # None THEN session_id_from_cookie
                             ELSE fresh_uuid
        ct == [c0 EXCEPT !.target = target_session_id]
    IN IF target_session_id \notin DOMAIN ct.index_map
       THEN LET full == Cardinality(DOMAIN ct.index_map) >= MAX_SESSIONS
                c1 == IF full THEN pop(ct) ELSE ct
                c1l == IF full /\ c1.exc = NoExc /\ c1.popped # <<>>
                       THEN [c1 EXCEPT !.log = Append(@, [kind |-> "global", front |-> c1.popped[1].id,
                                                          id |-> c1.popped[1].id,
                                                          data |-> c1.popped[1].data])]
                       ELSE c1
                c2 == push([c1l EXCEPT !.created = TRUE], now, target_session_id, fresh_storage, client_ip)
            IN IF c1.exc # NoExc THEN c1
               ELSE IF c2.exc # NoExc THEN c2
               ELSE IF target_session_id \notin DOMAIN c2.index_map THEN [c2 EXCEPT !.exc = "TypeError"]
               ELSE [c2 EXCEPT !.ret = <<target_session_id, At(c2.heap, c2.index_map[target_session_id]).data>>]
       ELSE LET r == At(ct.heap, ct.index_map[target_session_id]).data
                c1 == update_priority(ct, target_session_id, now, client_ip)
            IN IF c1.exc # NoExc THEN c1 ELSE [c1 EXCEPT !.ret = <<target_session_id, r>>]

\* returns <<session_id, storage id>> or <<None, None>>; stores is the heap of InMemoryStorage objects
find_session_by_credentials(c, stores, email, hashed_password) ==
    IF c.DISABLE_ISOLATION_MODE THEN <<None, None>> ELSE
    LET hit == {i \in 1..Len(c.heap) :
                  \E k \in 1..Len(ModelValues(stores[c.heap[i].data].users)) :
                     LET user == ModelValues(stores[c.heap[i].data].users)[k]
                     IN user.email = email /\ user.password = hashed_password}
    IN IF hit = {} THEN <<None, None>>
       ELSE LET i == CHOOSE i \in hit : \A j \in hit : i <= j
            IN <<c.heap[i].id, c.heap[i].data>>

\* the tokens bind_jwt_to_session_id removes: without the eviction of the oldest binding
jwt_tokens_to_remove_Mutant(c, jwt_token, session_id) ==
    {t \in DOMAIN c.jwt_to_session : t = jwt_token \/ c.jwt_to_session[t] = session_id}

jwt_tokens_to_remove(c, jwt_token, session_id) ==
    LET same == {t \in DOMAIN c.jwt_to_session : t = jwt_token \/ c.jwt_to_session[t] = session_id}
    IN IF Len(c.jwt_to_session_order) >= MAX_SESSIONS
       THEN same \cup {c.jwt_to_session_order[1]} ELSE same

\* bind_jwt_to_session_id keeping the other tokens of the session
bind_jwt_to_session_id_Mutant(c, jwt_token, session_id) ==
    IF c.DISABLE_ISOLATION_MODE THEN c ELSE
    LET removed == {t \in DOMAIN c.jwt_to_session : t = jwt_token}
        order == SelectSeq(c.jwt_to_session_order, LAMBDA t : t \notin removed)
        kept == [t \in (DOMAIN c.jwt_to_session) \ removed |-> c.jwt_to_session[t]]
    IN [c EXCEPT !.jwt_to_session_order = Append(order, jwt_token),
                 !.jwt_to_session = MapPut(kept, jwt_token, session_id)]

\* bind_jwt_to_session_id without its DISABLE_ISOLATION_MODE test
bind_jwt_to_session_id_FlagMutant(c, jwt_token, session_id) ==
    LET removed == jwt_tokens_to_remove(c, jwt_token, session_id)
        order == SelectSeq(c.jwt_to_session_order, LAMBDA t : t \notin removed)
        kept == [t \in (DOMAIN c.jwt_to_session) \ removed |-> c.jwt_to_session[t]]
    IN [c EXCEPT !.jwt_to_session_order = Append(order, jwt_token),
                 !.jwt_to_session = MapPut(kept, jwt_token, session_id)]

\* del of a token that is not a key raises KeyError, the order list already rewritten
bind_jwt_to_session_id(c, jwt_token, session_id) ==
    IF c.DISABLE_ISOLATION_MODE THEN c ELSE
    LET removed == jwt_tokens_to_remove(c, jwt_token, session_id)
        order == SelectSeq(c.jwt_to_session_order, LAMBDA t : t \notin removed)
        kept == [t \in (DOMAIN c.jwt_to_session) \ removed |-> c.jwt_to_session[t]]
    IN IF ~(removed \subseteq DOMAIN c.jwt_to_session)
       THEN [c EXCEPT !.jwt_to_session_order = order, !.exc = "KeyError"]
       ELSE [c EXCEPT !.jwt_to_session_order = Append(order, jwt_token),
                      !.jwt_to_session = MapPut(kept, jwt_token, session_id)]

\* ------------------------------------------------------------------ handlers
\* the user's record in the InMemoryStorage stores[data] is mutated in place
SetUser(stores, data, user) ==
    [stores EXCEPT ![data].users.objects =
        [i \in 1..Len(@) |-> IF @[i].id = user.id THEN user ELSE @[i]]]

\* c is the container after __call__'s get_storage returned c.ret = <<target_session_id, storage>>;
\* the result is [c, stores, status, user], c.session the session id the token was bound to
_handle_register(c, stores, email, username, password, seconds) ==
    LET storage == stores[c.ret[2]] IN
    IF get_user_by_email(email, storage) # <<>> \/ get_user_by_username(username, storage) # <<>>
    THEN [c |-> c, stores |-> stores, status |-> 409, user |-> <<>>]
    ELSE LET a == InMemoryModel_add(storage.users,
                    [id |-> None, email |-> email, username |-> username,
                     password |-> hash_password(password), token |-> None])
             token == generate_token(a.obj.id, seconds)
             user == [a.obj EXCEPT !.token = token]
         IN IF a.exc # NoExc
            THEN [c |-> [c EXCEPT !.exc = a.exc], stores |-> stores, status |-> 500, user |-> <<>>]
            ELSE [c |-> [bind_jwt_to_session_id(c, token, c.ret[1]) EXCEPT !.session = c.ret[1]],
                  stores |-> SetUser([stores EXCEPT ![c.ret[2]].users = a.m], c.ret[2], user),
                  status |-> 201, user |-> <<user>>]

_handle_login(c, stores, email, password, client_ip, now, fresh_uuid, seconds) ==
    LET storage == stores[c.ret[2]]
        hashed_password == hash_password(password)
        user0 == get_user_by_email(email, storage)
        found == find_session_by_credentials(c, stores, email, hashed_password)
        c2 == push(c, now, fresh_uuid, found[2], client_ip)
        here == user0 # <<>> /\ user0[1].password = hashed_password
        target_session_id == IF here THEN c.ret[1] ELSE fresh_uuid
        target_storage == IF here THEN c.ret[2] ELSE found[2]
        cb == IF here THEN c ELSE c2
        user == IF here THEN user0[1] ELSE get_user_by_email(email, stores[found[2]])[1]
        logged == [user EXCEPT !.token = generate_token(user.id, seconds)]
    IN IF ~here /\ found[2] = None
       THEN [c |-> c, stores |-> stores, status |-> 401, user |-> <<>>]
       ELSE IF cb.exc # NoExc
       THEN [c |-> cb, stores |-> stores, status |-> 500, user |-> <<>>]
       ELSE [c |-> [bind_jwt_to_session_id(cb, logged.token, target_session_id)
                      EXCEPT !.session = target_session_id],
             stores |-> SetUser(stores, target_storage, logged),
             status |-> 200, user |-> <<logged>>]

\* ------------------------------------------------------------------ save_data / load_data
DATA_FILE_PATH == "data.json"

\* json.dump writes a tuple and a list alike as an array and json.load reads an array as a
\* list: a list [source, target] is <<"list", source, target>>, a tuple is <<source, target>>
json_array(link) == IF Len(link) = 3 THEN link ELSE <<"list", link[1], link[2]>>

\* the file at DATA_FILE_PATH: missing, holding the JSON of a dict (data is the sequence of
\* <<session_id, session_data>> in the order of the dict), or what a write that failed
\* half way left of it
NoFile == [state |-> "missing", data |-> <<>>]
JsonFile(data) == [state |-> "json", data |-> data]
PartialFile == [state |-> "partial", data |-> <<>>]

session_data(storage) ==
    [users |-> [objects |-> storage.users.objects,
                last_accessed_ids |-> storage.users.last_accessed_ids,
                current_id_counter |-> storage.users.current_id_counter],
     follows |-> [i \in 1..Len(storage.follows.links) |-> json_array(storage.follows.links[i])]]

\* the first loop of save_data: saved_items in the order of the pops
RECURSIVE save_pop_loop(_, _)
save_pop_loop(c, saved_items) ==
    IF Len(c.heap) = 0 THEN [c |-> c, saved_items |-> saved_items]
    ELSE LET c1 == pop(c) IN
         IF c1.exc # NoExc THEN [c |-> c1, saved_items |-> saved_items]
         ELSE save_pop_loop(c1, Append(saved_items, c1.popped[1]))

\* the second loop of save_data
RECURSIVE save_push_loop(_, _, _)
save_push_loop(c, saved_items, i) ==
    IF i > Len(saved_items) \/ c.exc # NoExc THEN c
    ELSE save_push_loop(push(c, saved_items[i].p, saved_items[i].id, saved_items[i].data,
                             saved_items[i].ip),
                        saved_items, i + 1)

\* returns [c, data]: the container after the two loops and the dict handed to json.dump;
\* an exception of pop or push leaves save_data before anything is written
save_data(c, stores) ==
    LET popped == save_pop_loop(c, <<>>)
        saved_items == popped.saved_items
        data == [i \in 1..Len(saved_items) |->
                    <<saved_items[i].id, session_data(stores[saved_items[i].data])>>]
    IN [c |-> save_push_loop(popped.c, saved_items, 1), data |-> data]

\* dict.update: the values of the keys already there are replaced, the new keys appended
dict_update(objects, loaded) ==
    LET keys == {objects[i].id : i \in 1..Len(objects)}
        replaced == [i \in 1..Len(objects) |->
                        IF \E j \in 1..Len(loaded) : loaded[j].id = objects[i].id
                        THEN loaded[CHOOSE j \in 1..Len(loaded) : loaded[j].id = objects[i].id]
                        ELSE objects[i]]
    IN replaced \o SelectSeq(loaded, LAMBDA o : o.id \notin keys)

\* loaded_storage without the assignment of last_accessed_ids
loaded_storage_Mutant(d) ==
    [InMemoryStorage EXCEPT !.users.objects = dict_update(@, d.users.objects),
                            !.users.current_id_counter = d.users.current_id_counter,
                            !.follows.links = d.follows]

\* the InMemoryStorage load_data builds from one session_data of the file
loaded_storage(d) ==
    [InMemoryStorage EXCEPT !.users.objects = dict_update(@, d.users.objects),
                            !.users.last_accessed_ids = d.users.last_accessed_ids,
                            !.users.current_id_counter = d.users.current_id_counter,
                            !.follows.links = d.follows]

\* the loop of load_data over data.items(): session i is pushed at time now + i with the
\* i-th new InMemoryStorage; returns [c, stores]
RECURSIVE load_loop(_, _, _, _, _, _)
load_loop(c, stores, data, i, now, store_n) ==
    IF i > Len(data) THEN [c |-> c, stores |-> stores]
    ELSE load_loop(_push(c, now + i, data[i][1], Store(store_n + i), NoIp),
                   MapPut(stores, Store(store_n + i), loaded_storage(data[i][2])),
                   data, i + 1, now, store_n)

\* ------------------------------------------------------------------ state machine
Container == NewContainerCall(disable_isolation_mode, heap, index_map, ip_to_sessions, jwt_to_session, jwt_to_session_order)

\* InMemoryStorage objects no heap item references are reclaimed
Reclaim(stores, h) == [d \in (DOMAIN stores) \cap {h[i].data : i \in 1..Len(h)} |-> stores[d]]

Commit(c, stores) ==
    /\ heap' = c.heap
    /\ index_map' = c.index_map
    /\ ip_to_sessions' = c.ip_to_sessions
    /\ jwt_to_session' = c.jwt_to_session
    /\ jwt_to_session_order' = c.jwt_to_session_order
    /\ storages' = Reclaim(stores, c.heap)
    /\ disable_isolation_mode' = disable_isolation_mode
    /\ UNCHANGED <<model, links, data_file>>

\* what the call of get_storage in c consumed: one clock read, a uuid if it minted one,
\* an InMemoryStorage if it created a session; touched records the creation-or-touch instant
Counters(c, now) ==
    /\ clock' = IF c.DISABLE_ISOLATION_MODE THEN clock ELSE now
    /\ uuid_count' = IF c.target = Uuid(uuid_count + 1) THEN uuid_count + 1 ELSE uuid_count
    /\ store_count' = IF c.created THEN store_count + 1 ELSE store_count
    /\ touched' = [x \in DOMAIN c.index_map |-> IF x = c.target THEN now ELSE touched[x]]

Obs(op, cookie, ip, token, credentials, c, status, user) ==
    [op |-> op, cookie |-> cookie, ip |-> ip, token |-> token, credentials |-> credentials,
     exc |-> c.exc, ret |-> c.ret,
     created |-> c.created, target |-> c.target, log |-> c.log, status |-> status, user |-> user,
     session |-> c.session]

\* a client presents no cookie or an id it was given earlier (live or since evicted)
CookieChoices == {None} \cup {Uuid(n) : n \in 1..uuid_count}
\* a client presents no token or one that is bound
TokenChoices == {None} \cup DOMAIN jwt_to_session

\* the stores after get_storage: the InMemoryStorage() it constructed for push, if any
CallStores(c) ==
    IF c.created THEN MapPut(storages, Store(store_count + 1), InMemoryStorage) ELSE storages

GetStorageStep(cookie, ip, token) ==
    \E c \in {get_storage(Container, cookie, ip, token, clock + 1,
                          Uuid(uuid_count + 1), Store(store_count + 1))} :
          /\ Commit(c, CallStores(c))
          /\ Counters(c, clock + 1)
          /\ UNCHANGED <<now_s, registered>>
          /\ last' = Obs("get_storage", cookie, ip, token, <<>>, c, 0, <<>>)

InitContainer(disabled) ==
        /\ disable_isolation_mode = disabled
        /\ heap = <<>>
        /\ index_map = EmptyMap
        /\ ip_to_sessions = [x \in {} |-> <<>>]
        /\ jwt_to_session = [x \in {} |-> None]
        /\ jwt_to_session_order = <<>>
        /\ storages = [x \in {} |-> None]
        /\ clock = 0
        /\ now_s = 0
        /\ uuid_count = 0
        /\ store_count = 0
        /\ touched = EmptyMap
        /\ registered = {}
        /\ last = Obs("init", None, NoIp, None, <<>>, NewContainerCall(disabled, <<>>, EmptyMap, EmptyMap, EmptyMap, <<>>),
                       0, <<>>)

\* the module loaded: the container constructed, no file read yet
InitWith(disabled) ==
        /\ InitContainer(disabled)
        /\ model = InMemoryModel(MAX_USERS_PER_SESSION)
        /\ links = InMemoryLinks(MAX_FOLLOWS_PER_SESSION)
        /\ data_file = NoFile

\* a direct call of get_storage, as the tests make it
GetStorage(cookie, ip, token) ==
    /\ clock + 1 <= MaxClock
    /\ GetStorageStep(cookie, ip, token)

\* __call__ routed to a handler that only reads: the request's effect is its get_storage
Request(ip, token) ==
    /\ clock + 1 <= MaxServerClock
    /\ GetStorageStep(None, ip, token)


Failed500(c, stores) == [c |-> c, stores |-> stores, status |-> 500, user |-> <<>>]

\* __call__ routed to POST /users
Register(ip, token, who, password) ==
    /\ clock + 1 <= MaxServerClock
    /\ \E seconds \in {now_s, now_s + 1} \cap 0..MaxSecond :
       \E c \in {get_storage(Container, None, ip, token, clock + 1,
                             Uuid(uuid_count + 1), Store(store_count + 1))} :
       \E r \in {IF c.exc # NoExc THEN Failed500(c, CallStores(c))
                  ELSE _handle_register(c, CallStores(c), who.email, who.username, password, seconds)} :
            /\ Commit(r.c, r.stores)
            /\ Counters(c, clock + 1)
            /\ now_s' = IF r.status = 201 THEN seconds ELSE now_s
            /\ registered' = IF r.status = 201 THEN registered \cup {<<who.email, password>>}
                              ELSE registered
            /\ last' = Obs("register", None, ip, token, <<who.email, password>>, r.c, r.status, r.user)

\* __call__ routed to POST /users/login
Login(ip, token, email, password) ==
    /\ clock + 2 <= MaxServerClock
    /\ \E seconds \in {now_s, now_s + 1} \cap 0..MaxSecond :
       \E c \in {get_storage(Container, None, ip, token, clock + 1,
                             Uuid(uuid_count + 1), Store(store_count + 1))} :
       \E minted \in {IF c.target = Uuid(uuid_count + 1) THEN uuid_count + 1 ELSE uuid_count} :
       \E r \in {IF c.exc # NoExc THEN Failed500(c, CallStores(c))
                  ELSE _handle_login(c, CallStores(c), email, password, ip, clock + 2,
                                     Uuid(minted + 1), seconds)} :
       \E pushed \in {Uuid(minted + 1) \in DOMAIN r.c.index_map} :
            /\ Commit(r.c, r.stores)
            /\ clock' = IF c.DISABLE_ISOLATION_MODE THEN clock
                        ELSE IF pushed THEN clock + 2 ELSE clock + 1
            /\ uuid_count' = IF pushed THEN minted + 1 ELSE minted
            /\ store_count' = IF c.created THEN store_count + 1 ELSE store_count
            /\ touched' = [x \in DOMAIN r.c.index_map |->
                             IF x = Uuid(minted + 1) THEN clock + 2
                             ELSE IF x = c.target THEN clock + 1 ELSE touched[x]]
            /\ now_s' = IF r.status = 200 THEN seconds ELSE now_s
            /\ registered' = registered
            /\ last' = Obs("login", None, ip, token, <<email, password>>, r.c, r.status, r.user)

\* the heap primitives called directly, as the heap tests call them: ids are handed out in
\* order, priorities are arbitrary integers of a small range
HeapStep(op, c, obj_id) ==
    /\ Commit(c, storages)
    /\ UNCHANGED <<clock, now_s, store_count, touched, registered>>
    /\ last' = Obs(op, None, NoIp, None, <<>>, [c EXCEPT !.target = obj_id, !.ret = c.popped], 0, <<>>)

HeapPush(priority) ==
    /\ uuid_count < MaxHeapIds
    /\ uuid_count' = uuid_count + 1
    /\ \E c \in {_push(Container, priority, Uuid(uuid_count + 1), None, NoIp)} :
          HeapStep("_push", c, Uuid(uuid_count + 1))

HeapPop ==
    /\ uuid_count' = uuid_count
    /\ \E c \in {_pop(Container)} : HeapStep("_pop", c, None)

HeapUpdatePriority(obj_id, new_priority) ==
    /\ uuid_count' = uuid_count
    /\ \E c \in {_update_priority(Container, obj_id, new_priority)} :
          HeapStep("_update_priority", c, obj_id)

NextHeap ==
    \/ \E priority \in Priorities : HeapPush(priority)
    \/ HeapPop
    \/ \E n \in 1..uuid_count, priority \in Priorities : HeapUpdatePriority(Uuid(n), priority)

\* push and pop called directly, as the address tests call them: ids are handed out in
\* order, every session gets an InMemoryStorage of its own, priorities are arbitrary
\* integers of a small range
ContainerStep(op, ip, c, stores, session_id) ==
    /\ Commit(c, stores)
    /\ touched' = [x \in DOMAIN c.index_map |-> IF x \in DOMAIN touched THEN touched[x] ELSE clock]
    /\ UNCHANGED <<clock, now_s, registered>>
    /\ last' = Obs(op, None, ip, None, <<>>, [c EXCEPT !.target = session_id, !.ret = c.popped],
                   0, <<>>)

ContainerPush(priority, ip) ==
    /\ uuid_count < MaxHeapIds
    /\ uuid_count' = uuid_count + 1
    /\ store_count' = store_count + 1
    /\ \E c \in {push(Container, priority, Uuid(uuid_count + 1), Store(store_count + 1), ip)} :
          ContainerStep("push", ip, c, MapPut(storages, Store(store_count + 1), InMemoryStorage),
                        Uuid(uuid_count + 1))

ContainerPop ==
    /\ UNCHANGED <<uuid_count, store_count>>
    /\ \E c \in {pop(Container)} : ContainerStep("pop", NoIp, c, storages, None)

NextContainer ==
    \/ \E priority \in Priorities, ip \in {NoIp, V4A} : ContainerPush(priority, ip)
    \/ ContainerPop

\* get_storage, and push, pop and update_priority called directly with the time of the call
\* as priority, as get_storage calls them; update_priority is given any id handed out so
\* far, live or not
TimedStep(op, ip, c, stores, session_id) ==
    /\ clock + 1 <= MaxUpdateClock
    /\ clock' = clock + 1
    /\ Commit(c, stores)
    /\ touched' = [x \in DOMAIN c.index_map |->
                     IF x = session_id \/ x \notin DOMAIN touched THEN clock + 1 ELSE touched[x]]
    /\ UNCHANGED <<now_s, registered>>
    /\ last' = Obs(op, None, ip, None, <<>>, [c EXCEPT !.target = session_id, !.ret = c.popped],
                   0, <<>>)

TimedPush(ip) ==
    /\ uuid_count' = uuid_count + 1
    /\ store_count' = store_count + 1
    /\ \E c \in {push(Container, clock + 1, Uuid(uuid_count + 1), Store(store_count + 1), ip)} :
          TimedStep("push", ip, c, MapPut(storages, Store(store_count + 1), InMemoryStorage),
                    Uuid(uuid_count + 1))

TimedPop ==
    /\ UNCHANGED <<uuid_count, store_count>>
    /\ \E c \in {pop(Container)} : TimedStep("pop", NoIp, c, storages, None)

TimedUpdatePriority(obj_id, ip) ==
    /\ UNCHANGED <<uuid_count, store_count>>
    /\ \E c \in {update_priority(Container, obj_id, clock + 1, ip)} :
          TimedStep("update_priority", ip, c, storages, obj_id)

TimedHeapUpdatePriority(obj_id) ==
    /\ UNCHANGED <<uuid_count, store_count>>
    /\ \E c \in {_update_priority(Container, obj_id, clock + 1)} :
          TimedStep("_update_priority", NoIp, c, storages, obj_id)

TimedGetStorage(cookie, ip) ==
    /\ clock + 1 <= MaxUpdateClock
    /\ GetStorageStep(cookie, ip, None)

NextUpdate ==
    \/ \E ip \in ClientIps \cup {NoIp} : TimedPush(ip)
    \/ TimedPop
    \/ \E n \in 1..uuid_count, ip \in ClientIps \cup {NoIp} : TimedUpdatePriority(Uuid(n), ip)
    \/ \E n \in 1..uuid_count : TimedHeapUpdatePriority(Uuid(n))
    \/ \E cookie \in CookieChoices, ip \in ClientIps \cup {NoIp} : TimedGetStorage(cookie, ip)

\* the life of the server with DATA_FILE_PATH configured: the process starts with an empty
\* container and calls load_data, sessions are created and touched by get_storage and
\* their stores written, and save_data runs when the server is stopped, after which only a
\* new process can start
Running == last.op # "save_data"

SaveGetStorage(cookie, ip) ==
    /\ Running
    /\ clock + 1 <= MaxSaveClock
    /\ GetStorageStep(cookie, ip, None)

\* a handler writes the store of the session its get_storage call returned
StoreStep(op, arg, storage) ==
    /\ storages' = [storages EXCEPT ![last.ret[2]] = storage]
    /\ UNCHANGED <<heap, index_map, ip_to_sessions, jwt_to_session, jwt_to_session_order,
                   disable_isolation_mode, clock, now_s, uuid_count, store_count, touched,
                   registered, model, links, data_file>>
    /\ last' = [last EXCEPT !.op = op, !.cookie = arg]

WritableStore ==
    /\ last.op \in {"get_storage", "users.add", "users.get", "follows.add"}
    /\ last.exc = NoExc

UsersAdd ==
    /\ WritableStore
    /\ storages[last.ret[2]].users.current_id_counter <= MaxStoreAdds
    /\ \E r \in {InMemoryModel_add(storages[last.ret[2]].users, [id |-> None])} :
          StoreStep("users.add", None, [storages[last.ret[2]] EXCEPT !.users = r.m])

UsersGet(_id) ==
    /\ WritableStore
    /\ \E r \in {InMemoryModel_get(storages[last.ret[2]].users, _id)} :
          /\ r.exc = NoExc
          /\ StoreStep("users.get", _id, [storages[last.ret[2]] EXCEPT !.users = r.m])

FollowsAdd(source, target) ==
    /\ WritableStore
    /\ \E r \in {InMemoryLinks_add(storages[last.ret[2]].follows, source, target)} :
          /\ r.exc = NoExc
          /\ StoreStep("follows.add", <<source, target>>,
                       [storages[last.ret[2]] EXCEPT !.follows = r.l])

\* save_data with the file written, not opened, or left half written; the observation
\* keeps whether the file was written and the file this process loaded when save_data
\* directly follows load_data
SaveData(outcome) ==
    \E r \in {save_data(Container, storages)} :
       /\ Running
       /\ heap' = r.c.heap
       /\ index_map' = r.c.index_map
       /\ ip_to_sessions' = r.c.ip_to_sessions
       /\ jwt_to_session' = r.c.jwt_to_session
       /\ jwt_to_session_order' = r.c.jwt_to_session_order
       /\ storages' = Reclaim(storages, r.c.heap)
       /\ data_file' = IF r.c.exc # NoExc \/ outcome = "open_failed" THEN data_file
                       ELSE IF outcome = "dump_failed" THEN PartialFile
                       ELSE JsonFile(r.data)
       /\ touched' = [x \in DOMAIN r.c.index_map |-> touched[x]]
       /\ UNCHANGED <<disable_isolation_mode, clock, now_s, uuid_count, store_count,
                      registered, model, links>>
       /\ last' = Obs("save_data", None, NoIp, None, <<>>,
                      [r.c EXCEPT !.ret = <<r.c.exc = NoExc /\ outcome = "ok",
                                            IF last.op = "load_data" THEN last.ret[1] ELSE NoFile>>],
                      0, <<>>)

\* the process starts: load_data into the empty container of the new process
Start ==
    \E r \in {load_loop(NewContainerCall(FALSE, <<>>, EmptyMap, EmptyMap, EmptyMap, <<>>), EmptyMap,
                        IF data_file.state = "json" THEN data_file.data ELSE <<>>, 1, clock,
                        store_count)} :
       /\ clock + Len(r.c.heap) <= MaxSaveClock
       /\ heap' = r.c.heap
       /\ index_map' = r.c.index_map
       /\ ip_to_sessions' = r.c.ip_to_sessions
       /\ jwt_to_session' = r.c.jwt_to_session
       /\ jwt_to_session_order' = r.c.jwt_to_session_order
       /\ storages' = r.stores
       /\ data_file' = IF data_file.state = "json" THEN NoFile ELSE data_file
       /\ clock' = clock + Len(r.c.heap)
       /\ store_count' = store_count + Len(r.c.heap)
       /\ touched' = [x \in DOMAIN r.c.index_map |-> At(r.c.heap, r.c.index_map[x]).p]
       /\ registered' = {}
       /\ UNCHANGED <<disable_isolation_mode, now_s, uuid_count, model, links>>
       /\ last' = Obs("load_data", None, NoIp, None, <<>>, [r.c EXCEPT !.ret = <<data_file>>],
                      0, <<>>)

NextSave ==
    \/ \E cookie \in CookieChoices : SaveGetStorage(cookie, V4A)
    \/ UsersAdd
    \/ UsersGet(IntId(1))
    \/ FollowsAdd(IntId(1), IntId(2))
    \/ \E outcome \in {"ok", "open_failed", "dump_failed"} : SaveData(outcome)
    \/ Start

\* the container driven through get_storage, with or without a client address, until
\* save_data runs
NextShutdown ==
    \/ \E cookie \in CookieChoices, ip \in ClientIps \cup {NoIp} : SaveGetStorage(cookie, ip)
    \/ \E outcome \in {"ok", "open_failed", "dump_failed"} : SaveData(outcome)

\* get_storage and bind_jwt_to_session_id called directly, as the token tests call them:
\* get_storage without a client address, tokens arbitrary strings, bound or not, and a
\* token is bound to a session id that get_storage handed out (live or since evicted)
JwtTokens == {generate_token(ToString(u), 0) : u \in 1..MaxTokens}

JwtGetStorage(cookie, ip, token) ==
    /\ clock + 1 <= MaxJwtClock
    /\ GetStorageStep(cookie, ip, token)

JwtBind(token, session_id) ==
    \E c \in {bind_jwt_to_session_id(Container, token, session_id)} :
       /\ Commit(c, storages)
       /\ UNCHANGED <<clock, now_s, uuid_count, store_count, touched, registered>>
       /\ last' = Obs("bind_jwt_to_session_id", None, NoIp, token, <<>>,
                      [c EXCEPT !.session = session_id], 0, <<>>)

NextJwt ==
    \/ \E cookie \in CookieChoices, token \in {None} \cup JwtTokens :
          JwtGetStorage(cookie, NoIp, token)
    \/ \E token \in JwtTokens, n \in 1..uuid_count : JwtBind(token, Uuid(n))

\* calls that carry a client address and possibly a token but no cookie, the token bound
\* or not, to a session id that get_storage handed out
NextJwtAddress ==
    \/ \E ip \in ClientIps, token \in {None, generate_token("1", 0)} : GetStorage(None, ip, token)
    \/ \E n \in 1..uuid_count : JwtBind(generate_token("1", 0), Uuid(n))

\* find_session_by_credentials called on its own: it reads, and returns a pair
FindSession(email, password) ==
    /\ UNCHANGED <<heap, index_map, ip_to_sessions, jwt_to_session, jwt_to_session_order,
                   storages, disable_isolation_mode, clock, now_s, uuid_count, store_count,
                   touched, registered, model, links, data_file>>
    /\ last' = Obs("find_session_by_credentials", None, NoIp, None, <<email, password>>,
                   [Container EXCEPT !.ret = find_session_by_credentials(
                                                 Container, storages, email, hash_password(password))],
                   0, <<>>)

\* the server started with DISABLE_ISOLATION_MODE: clients send any cookie and any token,
\* the handlers bind tokens to the session id get_storage returned, which is None
NextNoIsolation ==
    \/ \E cookie \in {None, Uuid(1), Uuid(2)}, ip \in ClientIps \cup {NoIp},
          token \in {None} \cup JwtTokens : GetStorage(cookie, ip, token)
    \/ \E token \in JwtTokens, session_id \in {None, Uuid(1)} : JwtBind(token, session_id)
    \/ \E who \in People, password \in Passwords : FindSession(who.email, password)
    \/ \E ip \in ClientIps, who \in People : Register(ip, None, who, GoodPassword)
    \/ \E ip \in ClientIps, who \in People, password \in Passwords :
          Login(ip, None, who.email, password)

\* ------------------------------------------------------------------ InMemoryModel on its own
\* an InMemoryModel of any valid capacity, constructed and used directly
InitModel ==
    /\ InitContainer(FALSE)
    /\ \E max_count \in 1..MaxCount : model = InMemoryModel(max_count)
    /\ links = InMemoryLinks(MAX_FOLLOWS_PER_SESSION)
    /\ data_file = NoFile

\* a model that has handed out every id of MAX_ID_LEN digits but the last two, and whose
\* objects have all been deleted since
InitModelNearLimit ==
    /\ InitContainer(FALSE)
    /\ \E max_count \in 1..MaxCount :
          model = [InMemoryModel(max_count) EXCEPT !.current_id_counter = 10 ^ MAX_ID_LEN - 2]
    /\ links = InMemoryLinks(MAX_FOLLOWS_PER_SESSION)
    /\ data_file = NoFile

\* callers pass ints or strs: the ids handed out so far, the next one, a str that is no
\* decimal number, a str longer than MAX_ID_LEN, or a value of another type
IdArgs ==
    {IntId(n) : n \in 1..model.current_id_counter}
       \cup {StrId(ToString(n)) : n \in 1..model.current_id_counter}
       \cup {StrId("x"), StrId("xx"), None}

ModelStep(op, arg, r, ret) ==
    /\ model' = r.m
    /\ UNCHANGED <<heap, index_map, ip_to_sessions, jwt_to_session, jwt_to_session_order,
                   storages, disable_isolation_mode, now_s, uuid_count, store_count,
                   registered, links, data_file>>
    /\ last' = [Obs(op, None, NoIp, None, <<>>, Container, 0, <<>>)
                  EXCEPT !.target = arg, !.ret = ret, !.exc = r.exc]

ModelAdd ==
    /\ clock + 1 <= MaxModelClock
    /\ \E r \in {InMemoryModel_add(model, [id |-> None])} :
          /\ ModelStep("add", None, r, <<r.obj>>)
          /\ clock' = clock + 1
          /\ touched' = [k \in ModelKeys(r.m) |->
                           IF r.exc = NoExc /\ k = r.obj.id THEN clock + 1 ELSE touched[k]]

ModelGet(_id) ==
    /\ clock + 1 <= MaxModelClock
    /\ \E r \in {InMemoryModel_get(model, _id)} :
          /\ ModelStep("get", _id, r, r.ret)
          /\ clock' = clock + 1
          /\ touched' = [k \in ModelKeys(r.m) |->
                           IF r.ret # <<>> /\ k = r.ret[1].id THEN clock + 1 ELSE touched[k]]

ModelDelete(_id) ==
    \E r \in {InMemoryModel_delete(model, _id)} :
       /\ ModelStep("delete", _id, r, <<r.ret>>)
       /\ clock' = clock
       /\ touched' = [k \in ModelKeys(r.m) |-> touched[k]]

NextModel ==
    \/ ModelAdd
    \/ \E _id \in IdArgs : ModelGet(_id)
    \/ \E _id \in IdArgs : ModelDelete(_id)

\* ------------------------------------------------------------------ InMemoryLinks on its own
\* InMemoryLinks accepts any max_count; 0 turns add into a no-op
InitLinks ==
    /\ InitContainer(FALSE)
    /\ model = InMemoryModel(MAX_USERS_PER_SESSION)
    /\ \E max_count \in 0..MaxLinkCount : links = InMemoryLinks(max_count)
    /\ data_file = NoFile

\* a source is an int, the str "1" or None; a target is one of two ids given as int or
\* str, or None
LinkIdArgs == {IntId(n) : n \in 1..MaxLinkId} \cup {StrId("1"), None}
LinkTargetArgs == {IntId(1), IntId(2), StrId("1"), None}

\* created tells whether the call listed a pair that was not listed before
LinksStep(op, args, r) ==
    /\ links' = r.l
    /\ UNCHANGED <<heap, index_map, ip_to_sessions, jwt_to_session, jwt_to_session_order,
                   storages, disable_isolation_mode, clock, now_s, uuid_count, store_count,
                   touched, registered, model, data_file>>
    /\ last' = [Obs(op, None, NoIp, None, <<>>, Container, 0, <<>>)
                  EXCEPT !.target = args, !.exc = r.exc,
                         !.created = ~(SeqSet(r.l.links) \subseteq SeqSet(links.links))]

LinksAdd(source, target) ==
    \E r \in {InMemoryLinks_add(links, source, target)} :
       LinksStep("links.add", <<source, target>>, r)

LinksRemove(source, target) ==
    \E r \in {InMemoryLinks_remove(links, source, target)} :
       LinksStep("links.remove", <<source, target>>, r)

LinksDeleteSource(source_to_delete) ==
    \E r \in {InMemoryLinks_delete_source(links, source_to_delete)} :
       LinksStep("links.delete_source", <<source_to_delete>>, r)

LinksDeleteTarget(target_to_delete) ==
    \E r \in {InMemoryLinks_delete_target(links, target_to_delete)} :
       LinksStep("links.delete_target", <<target_to_delete>>, r)

NextLinks ==
    \/ \E source \in LinkIdArgs, target \in LinkTargetArgs : LinksAdd(source, target)
    \/ \E source \in LinkIdArgs, target \in LinkTargetArgs : LinksRemove(source, target)
    \/ \E source_to_delete \in LinkIdArgs : LinksDeleteSource(source_to_delete)
    \/ \E target_to_delete \in LinkTargetArgs : LinksDeleteTarget(target_to_delete)

\* _normalize_ip_for_limiting called on its own, as its tests call it: on an IPv4 address,
\* on an IPv6 address of 2 to MaxGroups groups (an empty group is what "::" leaves between
\* colons), and again on its own result; last.ip is the argument of the first call and
\* last.ret the results so far
Groups == {"db8", ""}
Ipv4Inputs == {V4A, [parts |-> <<"192.168.1.1">>, sfx |-> ""]}
Ipv6Inputs ==
    {V6A} \cup {[parts |-> p, sfx |-> ""] : p \in UNION {[1..k -> Groups] : k \in 2..MaxGroups}}
FullFormInputs == {x \in Ipv6Inputs : Len(x.parts) = 8}

InitNormalize == InitWith(FALSE)

NormalizeStep(ip, ret) ==
    /\ last' = [last EXCEPT !.op = "_normalize_ip_for_limiting", !.ip = ip, !.ret = ret]
    /\ UNCHANGED <<heap, index_map, ip_to_sessions, jwt_to_session, jwt_to_session_order,
                   storages, disable_isolation_mode, clock, now_s, uuid_count, store_count,
                   touched, registered, model, links, data_file>>

Normalize(ip) == NormalizeStep(ip, <<_normalize_ip_for_limiting(ip)>>)

Renormalize ==
    /\ last.op = "_normalize_ip_for_limiting"
    /\ Len(last.ret) = 1
    /\ NormalizeStep(last.ip, Append(last.ret, _normalize_ip_for_limiting(last.ret[1])))

NextNormalize ==
    \/ \E ip \in Ipv4Inputs \cup Ipv6Inputs : Normalize(ip)
    \/ Renormalize

\* the container driven through its own methods, as the tests drive it
Next ==
    \/ \E cookie \in CookieChoices, ip \in ClientIps \cup {NoIp}, token \in TokenChoices :
          GetStorage(cookie, ip, token)

\* the container driven by the WSGI application: every request resolves its session from
\* the token alone and carries a client address
NextServer ==
    \/ \E ip \in ClientIps, token \in TokenChoices : Request(ip, token)
    \/ \E ip \in ClientIps, token \in TokenChoices, who \in People :
          Register(ip, token, who, GoodPassword)
    \/ \E ip \in ClientIps, token \in TokenChoices, who \in People, password \in Passwords :
          Login(ip, token, who.email, password)

Init == InitWith(FALSE)

Spec == Init /\ [][Next]_vars

SpecServer == Init /\ [][NextServer]_vars

SpecHeap == Init /\ [][NextHeap]_vars

SpecJwt == Init /\ [][NextJwt]_vars

SpecJwtAddress == Init /\ [][NextJwtAddress]_vars

SpecNoIsolation == InitWith(TRUE) /\ [][NextNoIsolation]_vars

SpecContainer == Init /\ [][NextContainer]_vars

SpecSave == Init /\ [][NextSave]_vars

SpecShutdown == Init /\ [][NextShutdown]_vars

SpecNormalize == InitNormalize /\ [][NextNormalize]_vars

SpecUpdate == Init /\ [][NextUpdate]_vars

SpecModel == InitModel /\ [][NextModel]_vars

SpecModelNearLimit == InitModelNearLimit /\ [][NextModel]_vars

SpecLinks == InitLinks /\ [][NextLinks]_vars

\* ------------------------------------------------------------------ properties
Live == DOMAIN index_map
ItemOf(s) == At(heap, index_map[s])
ListsOf(s) == {ip \in DOMAIN ip_to_sessions : s \in SeqSet(ip_to_sessions[ip])}
Returned == last.op = "get_storage" /\ last.exc = NoExc
EvictedBy(kind) == {last.log[i].id : i \in {j \in 1..Len(last.log) : last.log[j].kind = kind}}

\* C1: after every completed operation (one that returned rather than raised) every list
\* of ip_to_sessions holds at most MAX_SESSIONS_PER_IP session ids.
C1_AddressQuota ==
    last.exc = NoExc =>
        \A ip \in DOMAIN ip_to_sessions : Len(ip_to_sessions[ip]) <= MAX_SESSIONS_PER_IP

\* C2: every session id listed under an address is a live session whose recorded owner
\* address normalises to that address; no evicted session stays in the address index.
C2_ListedSessionsLiveAndOwned ==
    \A ip \in DOMAIN ip_to_sessions : \A i \in 1..Len(ip_to_sessions[ip]) :
        /\ ip_to_sessions[ip][i] \in Live
        /\ _normalize_ip_for_limiting(ItemOf(ip_to_sessions[ip][i]).ip) = ip

\* C3: every live session whose owner address is set is in exactly one address list.
C3_ExactlyOneList ==
    \A s \in Live : ItemOf(s).ip # NoIp => Cardinality(ListsOf(s)) = 1

\* C4: the number of live sessions never exceeds MAX_SESSIONS.
C4_GlobalCap ==
    Cardinality(Live) <= MAX_SESSIONS /\ Len(heap) <= MAX_SESSIONS

\* C5: a get_storage that creates a session while MAX_SESSIONS sessions are live evicts,
\* for the global cap, the live session whose last creation-or-touch is the oldest, and
\* that session only; every later-touched session survives the global-cap eviction.
C5_GlobalCapEvictsOldest ==
    [][(last'.op = "get_storage" /\ last'.created /\ Cardinality(Live) >= MAX_SESSIONS) =>
          /\ Len(last'.log) >= 1
          /\ last'.log[1].kind = "global"
          /\ last'.log[1].id \in Live
          /\ \A s \in Live \ {last'.log[1].id} : touched[last'.log[1].id] < touched[s]
          /\ \A i \in 2..Len(last'.log) : last'.log[i].kind # "global"]_vars

C5_Witness ==
    /\ last.op = "get_storage" /\ last.exc = NoExc /\ last.created
    /\ EvictedBy("global") # {}
    /\ Uuid(1) \notin EvictedBy("global")
    /\ \E s \in EvictedBy("global") : s # Uuid(1) /\ Uuid(1) \in Live

\* C6: the session a get_storage call creates or touches is never one of the sessions
\* that call evicts, and when the call returns (session_id, data), session_id is live and
\* its heap payload is data.
C6_TargetNeverEvicted ==
    (last.op = "get_storage" /\ last.target # None) =>
        /\ last.target \notin EvictedBy("global") \cup EvictedBy("address")
        /\ Returned => /\ last.ret[1] \in Live
                       /\ ItemOf(last.ret[1]).data = last.ret[2]

\* C7: get_storage never raises the ValueError of _update_priority from an eviction step.
C7_NoValueError ==
    last.op = "get_storage" => last.exc # "ValueError"

\* C10: min-heap order: no item has a priority above that of either of its children.
C10_HeapProperty ==
    \A i \in 0..(Len(heap) - 1) :
        /\ (2 * i + 1 < Len(heap) => At(heap, i).p <= At(heap, 2 * i + 1).p)
        /\ (2 * i + 2 < Len(heap) => At(heap, i).p <= At(heap, 2 * i + 2).p)

C10_Witness ==
    /\ last.op \in {"_pop", "_update_priority"}
    /\ last.exc = NoExc
    /\ Len(heap) >= 4
    /\ At(heap, 1).p > At(heap, 2).p

\* C8: a login with the email and password that an earlier register request stored
\* succeeds and answers with that user's record, whatever sessions earlier requests
\* evicted (the login request itself evicting nothing).
C8_LoginAfterRegister ==
    (last.op = "login" /\ last.credentials \in registered /\ last.log = <<>>) =>
        /\ last.status = 200
        /\ last.user[1].email = last.credentials[1]

\* C9: when a step evicts a session whose payload another session shares, every sharer the
\* step did not itself evict stays live with the same payload object, and with the same
\* contents when the step is a bare get_storage; in every state the payloads found in heap
\* items are exactly the payloads of the live session ids.
HeapPayloads == {heap[i].data : i \in 1..Len(heap)}
C9_SharedStoreSurvives ==
    [][/\ \A t \in Live \ DOMAIN index_map' : \A s \in Live \ {t} :
             (ItemOf(s).data = ItemOf(t).data /\ \A i \in 1..Len(last'.log) : last'.log[i].id # s) =>
                 /\ s \in DOMAIN index_map'
                 /\ (heap')[index_map'[s] + 1].data = ItemOf(s).data
                 /\ ItemOf(s).data \in DOMAIN storages'
                 /\ last'.op = "get_storage" => storages'[ItemOf(s).data] = storages[ItemOf(s).data]
       /\ {(heap')[i].data : i \in 1..Len(heap')} =
              {(heap')[index_map'[s] + 1].data : s \in DOMAIN index_map'}]_vars

C9_Witness ==
    /\ last.exc = NoExc
    /\ \E i \in 1..Len(last.log) :
          /\ last.log[i].id \notin Live
          /\ last.log[i].data \in HeapPayloads
          /\ Len(storages[last.log[i].data].users.objects) >= 1

\* C11: index_map and heap are synchronised: as many entries as items, and the item at
\* every position i is recorded at i both in index_map and in its own index field.
C11_IndexSynchronised ==
    /\ Cardinality(DOMAIN index_map) = Len(heap)
    /\ \A i \in 0..(Len(heap) - 1) :
          /\ At(heap, i).id \in DOMAIN index_map
          /\ index_map[At(heap, i).id] = i
          /\ At(heap, i).idx = i

C11_Witness ==
    /\ last.op \in {"_pop", "_update_priority"}
    /\ last.exc = NoExc
    /\ Len(heap) >= 3
    /\ \E m \in 1..uuid_count, n \in 1..uuid_count :
          /\ m < n
          /\ Uuid(m) \in Live /\ Uuid(n) \in Live
          /\ index_map[Uuid(m)] > index_map[Uuid(n)]

\* C12: every _pop on a non-empty heap removes exactly one item, one of least priority, so
\* consecutive pops come out in non-decreasing priority order; a _pop on the empty heap
\* returns None and changes nothing.
C12_PopOrder ==
    [][last'.op = "_pop" =>
         IF Len(heap) = 0
         THEN /\ last'.ret = <<>>
              /\ UNCHANGED <<heap, index_map, ip_to_sessions, jwt_to_session, jwt_to_session_order>>
         ELSE /\ Len(last'.ret) = 1
              /\ last'.ret[1].id \in Live
              /\ DOMAIN index_map' = Live \ {last'.ret[1].id}
              /\ Len(heap') = Len(heap) - 1
              /\ \A s \in Live : last'.ret[1].p <= ItemOf(s).p
              /\ (last.op = "_pop" /\ last.ret # <<>>) => last.ret[1].p <= last'.ret[1].p]_vars

C12_Witness ==
    /\ last.op = "_pop"
    /\ last.ret # <<>>
    /\ last.ret[1].id # Uuid(1)
    /\ Len(heap) >= 2
    /\ last.ret[1].p < At(heap, 0).p
    /\ At(heap, 0).p < At(heap, 1).p

\* C13: bind_jwt_to_session_id(token, session_id) leaves jwt_to_session[token] = session_id
\* and no other token mapped to session_id; at all times no two tokens map to the same session
C13_BindExclusive ==
    /\ [](\A t1, t2 \in DOMAIN jwt_to_session :
             jwt_to_session[t1] = jwt_to_session[t2] => t1 = t2)
    /\ [][last'.op = "bind_jwt_to_session_id"
          => /\ last'.token \in DOMAIN jwt_to_session'
             /\ jwt_to_session'[last'.token] = last'.session
             /\ \A t \in DOMAIN jwt_to_session' :
                   jwt_to_session'[t] = last'.session => t = last'.token]_vars

\* a bind has just acted on a table that holds bindings of other sessions as well
C13_Witness ==
    /\ last.op = "bind_jwt_to_session_id"
    /\ last.exc = NoExc
    /\ last.token \in DOMAIN jwt_to_session
    /\ jwt_to_session[last.token] = last.session
    /\ Cardinality(DOMAIN jwt_to_session) >= 2

\* C14: bind_jwt_to_session_id removes a binding of another token and another session (the
\* oldest one) only if the table, once the bindings of the same token and of the same session
\* are removed, still holds MAX_SESSIONS bindings. Stated for tables whose order list lists
\* every bound token once.
C14_EvictsOnlyWhenStillFull ==
    [][(/\ last'.op = "bind_jwt_to_session_id"
        /\ Len(jwt_to_session_order) = Cardinality(DOMAIN jwt_to_session))
       => LET same == {t \in DOMAIN jwt_to_session :
                          t = last'.token \/ jwt_to_session[t] = last'.session}
          IN (\E t \in (DOMAIN jwt_to_session) \ same : t \notin DOMAIN jwt_to_session')
                => Cardinality((DOMAIN jwt_to_session) \ same) >= MAX_SESSIONS]_vars

\* C15: whatever sequence of bind_jwt_to_session_id and get_storage calls is made,
\* jwt_to_session never holds more than MAX_SESSIONS entries
C15_BindingsCapped == Cardinality(DOMAIN jwt_to_session) <= MAX_SESSIONS

\* a bind on a full table has evicted the oldest binding: the table is full again and the
\* token just bound is its newest entry while a session handed out earlier has lost its token
C15_Witness ==
    /\ last.op = "bind_jwt_to_session_id"
    /\ last.exc = NoExc
    /\ Cardinality(DOMAIN jwt_to_session) = MAX_SESSIONS
    /\ jwt_to_session_order = <<generate_token("2", 0), generate_token("3", 0), generate_token("4", 0)>>
    /\ \A t \in DOMAIN jwt_to_session : jwt_to_session[t] # Uuid(1)
    /\ jwt_to_session[generate_token("4", 0)] = Uuid(4)

\* C16: jwt_to_session_order lists exactly the keys of jwt_to_session, each once, and a
\* get_storage that resolved its session through the token leaves that token at the end of
\* the list
ResolvedByToken ==
    /\ last.op = "get_storage"
    /\ last.cookie = None
    /\ last.token \in DOMAIN jwt_to_session
    /\ last.target = jwt_to_session[last.token]

C16_OrderListsKeysOnce ==
    /\ SeqSet(jwt_to_session_order) = DOMAIN jwt_to_session
    /\ Len(jwt_to_session_order) = Cardinality(DOMAIN jwt_to_session)
    /\ ResolvedByToken => jwt_to_session_order[Len(jwt_to_session_order)] = last.token

\* C17: get_storage(None, ip, token) with a token bound to a session that is no longer live is
\* a miss: it does not raise, and it creates and returns a session with a newly minted id and
\* an empty store
C17_StaleTokenIsMiss ==
    [][(/\ last'.op = "get_storage" /\ last'.cookie = None
        /\ last'.token \in DOMAIN jwt_to_session
        /\ jwt_to_session[last'.token] \notin Live)
       => (/\ last'.exc = NoExc
           /\ last'.created
           /\ last'.target = Uuid(uuid_count + 1)
           /\ last'.target \notin Live
           /\ last'.ret[1] = last'.target
           /\ last'.ret[2] \notin DOMAIN storages
           /\ storages'[last'.ret[2]] = InMemoryStorage)]_vars

\* C18: get_storage resolves its session from the cookie when one is given, the token's
\* binding then being neither used nor reordered; from the token when no cookie is given and
\* the token is bound to a live session; and mints a fresh id otherwise
C18_ResolutionOrder ==
    [][last'.op = "get_storage"
       => LET bound == /\ last'.token \in DOMAIN jwt_to_session
                       /\ jwt_to_session[last'.token] \in Live
              expected == IF last'.cookie # None THEN last'.cookie
                          ELSE IF bound THEN jwt_to_session[last'.token]
                          ELSE Uuid(uuid_count + 1)
          IN /\ last'.exc = NoExc
             /\ last'.ret[1] = expected
             /\ expected \in DOMAIN index_map'
             /\ (last'.cookie = None /\ ~bound) => (expected \notin Live /\ last'.created)
             /\ (last'.cookie # None) => UNCHANGED <<jwt_to_session, jwt_to_session_order>>]_vars

\* a call that gave a cookie together with a token bound to another, live, session was
\* answered with the cookie's session
C18_Witness ==
    /\ last.op = "get_storage"
    /\ last.cookie # None
    /\ last.token \in DOMAIN jwt_to_session
    /\ jwt_to_session[last.token] \in Live
    /\ jwt_to_session[last.token] # last.cookie
    /\ last.ret[1] = last.cookie

\* C20: with isolation enabled, a get_storage call without cookie whose token does not
\* resolve (no token, an unbound token, a token bound to a session that is not live) returns
\* a session id that was not live before the call and a store that existed for no session
\* before the call and is the payload of no other live session after it
C20_FreshSessionFreshStore ==
    [][(/\ last'.op = "get_storage" /\ last'.exc = NoExc
        /\ ~disable_isolation_mode
        /\ last'.cookie = None
        /\ ~(last'.token \in DOMAIN jwt_to_session /\ jwt_to_session[last'.token] \in Live))
       => (/\ last'.ret[1] \notin Live
           /\ last'.ret[1] \in DOMAIN index_map'
           /\ last'.ret[2] \notin DOMAIN storages
           /\ last'.ret[2] \notin HeapPayloads
           /\ At(heap', index_map'[last'.ret[1]]).data = last'.ret[2]
           /\ \A s \in (DOMAIN index_map') \ {last'.ret[1]} :
                 At(heap', index_map'[s]).data # last'.ret[2])]_vars

\* a call with a token bound to an evicted session has created a session next to others
C20_Witness ==
    /\ last.op = "get_storage" /\ last.exc = NoExc
    /\ last.cookie = None
    /\ last.token \in DOMAIN jwt_to_session
    /\ jwt_to_session[last.token] \notin Live
    /\ last.created
    /\ last.ret[1] \in Live
    /\ Cardinality(Live) >= 2

\* C19: with isolation disabled every get_storage call returns None as session id and the
\* one shared store, the store of the first call; no session index, address list or token
\* binding is ever recorded (bind_jwt_to_session_id changes nothing) and
\* find_session_by_credentials returns (None, None)
C19_IsolationDisabled ==
    /\ [](disable_isolation_mode
          => /\ index_map = EmptyMap
             /\ DOMAIN ip_to_sessions = {}
             /\ DOMAIN jwt_to_session = {}
             /\ jwt_to_session_order = <<>>
             /\ Len(heap) <= 1)
    /\ [][(disable_isolation_mode /\ Len(heap) = 1) => heap' = heap]_vars
    /\ [][(disable_isolation_mode /\ last'.op \in {"get_storage", "register", "login"})
          => /\ Len(heap') = 1
             /\ last'.ret = <<None, heap'[1].data>>
             /\ last'.exc = NoExc]_vars
    /\ [][(disable_isolation_mode /\ last'.op = "bind_jwt_to_session_id")
          => UNCHANGED <<heap, index_map, ip_to_sessions, jwt_to_session, jwt_to_session_order,
                         storages>>]_vars
    /\ [][(disable_isolation_mode /\ last'.op = "find_session_by_credentials")
          => last'.ret = <<None, None>>]_vars

\* a user is registered in the shared store, and a later call with another cookie, address
\* and token was answered with that store
C19_Witness ==
    /\ disable_isolation_mode
    /\ last.op = "get_storage"
    /\ last.cookie = Uuid(2) /\ last.ip = V6A /\ last.token = generate_token("1", 0)
    /\ last.ret = <<None, Store(1)>>
    /\ registered # {}
    /\ Len(storages[Store(1)].users.objects) = 1

\* C21: an InMemoryModel of capacity max_count >= 1 never holds more than max_count objects,
\* whatever adds, gets and deletes were completed
C21_ModelWithinCapacity ==
    /\ model.max_count >= 1
    /\ Len(model.objects) <= model.max_count

\* an add on a full model has completed: the model is full, its oldest id is gone
C21_Witness ==
    /\ last.op = "add" /\ last.exc = NoExc
    /\ Len(model.objects) = model.max_count
    /\ model.current_id_counter > model.max_count + 1
    /\ "1" \notin ModelKeys(model)

\* C22: the ids InMemoryModel.add assigns are the decimal strings of a counter that starts at
\* 1 and grows by one with each successful add and with nothing else; the objects held carry
\* distinct ids below the counter, increasing in the order of their insertion
IdNumber(k) ==
    IF \E n \in 1..model.current_id_counter : ToString(n) = k
    THEN CHOOSE n \in 1..model.current_id_counter : ToString(n) = k
    ELSE 0

C22_IdsFromCounter ==
    /\ model.current_id_counter = 1
    /\ [](\A i \in 1..Len(model.objects) :
             /\ IdNumber(model.objects[i].id) \in 1..(model.current_id_counter - 1)
             /\ \A j \in 1..Len(model.objects) :
                   i < j => IdNumber(model.objects[i].id) < IdNumber(model.objects[j].id))
    /\ [][IF last'.op = "add" /\ last'.exc = NoExc
          THEN /\ last'.ret[1].id = ToString(model.current_id_counter)
               /\ model'.current_id_counter = model.current_id_counter + 1
          ELSE model'.current_id_counter = model.current_id_counter]_vars

\* an add after an eviction and a delete was given the next number, not a freed one
C22_Witness ==
    /\ last.op = "add" /\ last.exc = NoExc
    /\ last.ret[1].id = "4"
    /\ model.max_count = 2
    /\ ModelKeys(model) = {"4"}

\* C23: after every completed add, get and delete, last_accessed_ids lists exactly the keys
\* of objects, each once
C23_AccessOrderListsKeys ==
    /\ SeqSet(model.last_accessed_ids) = ModelKeys(model)
    /\ Len(model.last_accessed_ids) = Cardinality(ModelKeys(model))
    /\ Len(model.objects) = Cardinality(ModelKeys(model))

\* a delete has removed one of three objects after a get had reordered them
C23_Witness ==
    /\ last.op = "delete" /\ last.ret = <<TRUE>>
    /\ model.max_count = 3
    /\ ModelKeys(model) = {"1", "3"}
    /\ model.last_accessed_ids = <<"3", "1">>

\* C24: an add on a full InMemoryModel evicts exactly one object, the one whose add or last
\* successful get is the oldest, and keeps the new object; an add on a model that is not full
\* evicts nothing; a successful get moves its id to the end of last_accessed_ids
C24_EvictsLeastRecentlyAccessed ==
    /\ [][(last'.op = "add" /\ last'.exc = NoExc)
          => LET new == last'.ret[1].id
                 before == ModelKeys(model)
                 after == ModelKeys(model')
             IN /\ new \in after
                /\ new \notin before
                /\ IF Cardinality(before) >= model.max_count
                   THEN \E e \in before :
                           /\ after = (before \ {e}) \cup {new}
                           /\ \A k \in before \ {e} : touched[e] < touched[k]
                   ELSE after = before \cup {new}]_vars
    /\ [][(last'.op = "get" /\ last'.ret # <<>>)
          => /\ ModelKeys(model') = ModelKeys(model)
             /\ model'.last_accessed_ids[Len(model'.last_accessed_ids)] = last'.ret[1].id]_vars

\* the second object was evicted although the first is older: the first had been read since
C24_Witness ==
    /\ last.op = "add" /\ last.exc = NoExc
    /\ model.max_count = 2
    /\ ModelKeys(model) = {"1", "3"}
    /\ model.last_accessed_ids = <<"1", "3">>

\* C25: an InMemoryLinks with max_count > 0 never lists a pair twice nor more than max_count
\* pairs, and an add of a new pair to a full list drops exactly the first pair and appends
\* the new one
LinkOf(args) == <<normalize_id(args[1]).value, normalize_id(args[2]).value>>

C25_LinksCappedNoDuplicates ==
    /\ [](links.max_count > 0
          => /\ Len(links.links) <= links.max_count
             /\ Cardinality(SeqSet(links.links)) = Len(links.links))
    /\ [][(/\ links.max_count > 0
           /\ last'.op = "links.add" /\ last'.exc = NoExc
           /\ LinkOf(last'.target) \notin SeqSet(links.links)
           /\ Len(links.links) >= links.max_count)
          => links'.links = Append(Tail(links.links), LinkOf(last'.target))]_vars

\* a new pair was added to a full list of three: the oldest pair is gone
C25_Witness ==
    /\ last.op = "links.add" /\ last.exc = NoExc
    /\ links.max_count = 3
    /\ links.links = <<<<"1", "2">>, <<"2", "1">>, <<"2", "2">>>>
    /\ LinkOf(last.target) = <<"2", "2">>
    /\ last.created

\* C26: adding a pair that InMemoryLinks already lists moves it to the end of the list: the
\* other pairs keep their order, no pair is dropped and the length is unchanged, also when
\* the list is full
C26_ReAddMovesToEnd ==
    [][(/\ last'.op = "links.add" /\ last'.exc = NoExc
        /\ LinkOf(last'.target) \in SeqSet(links.links))
       => /\ links'.links = Append(Filter(links.links, LinkOf(last'.target)), LinkOf(last'.target))
          /\ SeqSet(links'.links) = SeqSet(links.links)
          /\ Len(links'.links) = Len(links.links)]_vars

\* a pair of a full list was added again: it is the last pair and nothing new is listed
C26_Witness ==
    /\ last.op = "links.add" /\ last.exc = NoExc
    /\ ~last.created
    /\ links.max_count = 2
    /\ links.links = <<<<"2", "1">>, <<"1", "2">>>>
    /\ LinkOf(last.target) = <<"1", "2">>

\* C27: delete_source(x) removes the pairs whose source is x and no other, delete_target(y)
\* the pairs whose target is y and no other; the pairs that remain keep their relative order
SameRelativeOrder(after, before) ==
    \A i, j \in 1..Len(after) :
       i < j => \E a, b \in 1..Len(before) : a < b /\ before[a] = after[i] /\ before[b] = after[j]

C27_DeleteByEndpoint ==
    /\ [][(last'.op = "links.delete_source" /\ last'.exc = NoExc)
          => /\ SeqSet(links'.links) =
                   {e \in SeqSet(links.links) : e[1] # normalize_id(last'.target[1]).value}
             /\ Len(links'.links) = Cardinality(SeqSet(links'.links))
             /\ SameRelativeOrder(links'.links, links.links)]_vars
    /\ [][(last'.op = "links.delete_target" /\ last'.exc = NoExc)
          => /\ SeqSet(links'.links) =
                   {e \in SeqSet(links.links) : e[2] # normalize_id(last'.target[1]).value}
             /\ Len(links'.links) = Cardinality(SeqSet(links'.links))
             /\ SameRelativeOrder(links'.links, links.links)]_vars

\* delete_source("1") has acted: the pairs left are those of the other source, one of them
\* with "1" as its target
C27_Witness ==
    /\ last.op = "links.delete_source" /\ last.exc = NoExc
    /\ normalize_id(last.target[1]).value = "1"
    /\ links.max_count = 3
    /\ links.links = <<<<"2", "2">>, <<"2", "1">>>>

\* C30: every forced eviction of the address cap removes from the heap exactly the session
\* it removes from the front of the address's list, whatever the priorities of the sessions:
\* afterwards that session is neither live nor listed and every other session is still live
C30_AddressCapEvictsListFront ==
    [][ \A i \in 1..Len(last'.log) :
          last'.log[i].kind = "address" =>
             /\ last'.log[i].id = last'.log[i].front
             /\ last'.log[i].front \notin DOMAIN index_map'
             /\ \A ip \in DOMAIN ip_to_sessions' :
                   last'.log[i].front \notin SeqSet(ip_to_sessions'[ip])
             /\ DOMAIN index_map \ {last'.log[i].front} \subseteq DOMAIN index_map' ]_vars

\* C28: save_data leaves the container as it found it, whether or not the file is written:
\* the same live sessions, each with the same priority, payload and owner address, and
\* every list of ip_to_sessions with the same members in the same order
C28_SaveDataNonDestructive ==
    [][ last'.op = "save_data" =>
          /\ DOMAIN index_map' = DOMAIN index_map
          /\ \A s \in DOMAIN index_map :
                /\ At(heap', index_map'[s]).p = At(heap, index_map[s]).p
                /\ At(heap', index_map'[s]).data = At(heap, index_map[s]).data
                /\ At(heap', index_map'[s]).ip = At(heap, index_map[s]).ip
          /\ ip_to_sessions' = ip_to_sessions ]_vars

\* C29: load_data into the empty container directly followed by a save_data that writes
\* the file writes the file that was loaded: the same sessions in the same order, each with
\* the same objects, access-order list, id counter and link list
C29_LoadSaveRoundTrip ==
    (last.op = "save_data" /\ last.ret[1] /\ last.ret[2].state = "json")
        => data_file = last.ret[2]

C29_Witness ==
    /\ last.op = "save_data"
    /\ last.ret[1]
    /\ last.ret[2].state = "json"
    /\ Len(data_file.data) >= 2
    /\ \E i \in 1..Len(data_file.data) :
          /\ Len(data_file.data[i][2].users.objects) = 2
          /\ data_file.data[i][2].users.last_accessed_ids = <<"2", "1">>
          /\ Len(data_file.data[i][2].follows) = 1

\* C40: normalising a normalised address returns it unchanged, an IPv4 address is returned
\* verbatim, and two full-form IPv6 addresses with the same first four groups have the
\* same quota key
C40_NormalisationIdempotent ==
    last.op = "_normalize_ip_for_limiting" =>
       /\ Len(last.ret) = 2 => last.ret[2] = last.ret[1]
       /\ last.ip \in Ipv4Inputs => last.ret[1] = last.ip
       /\ last.ip \in FullFormInputs =>
             \A other \in FullFormInputs :
                SubSeq(other.parts, 1, 4) = SubSeq(last.ip.parts, 1, 4)
                   => _normalize_ip_for_limiting(other) = last.ret[1]

C40_Witness ==
    /\ last.op = "_normalize_ip_for_limiting"
    /\ last.ip = V6A
    /\ last.ret = <<[parts |-> <<"2001", "db8", "85a3", "8d3">>, sfx |-> "::/64"],
                    [parts |-> <<"2001", "db8", "85a3", "8d3">>, sfx |-> "::/64"]>>

\* C39: an InMemoryModel operation that fails leaves objects, last_accessed_ids and
\* current_id_counter as they were: get and delete raise ValueError for an id of another
\* type or longer than MAX_ID_LEN, add raises ValueError when the next id would be longer
\* than MAX_ID_LEN, get of a missing id returns None and delete of a missing id False
IdTooLong(arg) ==
    \/ arg # None /\ arg[1] = "int" /\ DecLen(arg[2]) > MAX_ID_LEN
    \/ arg # None /\ arg[1] = "str" /\ Len(arg[2]) > MAX_ID_LEN

IdMissing(arg) ==
    /\ arg # None
    /\ ~IdTooLong(arg)
    /\ (IF arg[1] = "int" THEN ToString(arg[2]) ELSE arg[2]) \notin ModelKeys(model)

C39_FailedOperationChangesNothing ==
    [][ /\ (last'.op \in {"get", "delete"} /\ (last'.target = None \/ IdTooLong(last'.target)))
            => (last'.exc = "ValueError" /\ model' = model)
        /\ (last'.op = "add" /\ DecLen(model.current_id_counter) > MAX_ID_LEN)
            => (last'.exc = "ValueError" /\ model' = model)
        /\ (last'.op = "get" /\ IdMissing(last'.target))
            => (last'.exc = NoExc /\ last'.ret = <<>> /\ model' = model)
        /\ (last'.op = "delete" /\ IdMissing(last'.target))
            => (last'.exc = NoExc /\ last'.ret = <<FALSE>> /\ model' = model)
        /\ (last'.op \in {"add", "get", "delete"} /\ last'.exc # NoExc) => model' = model ]_vars

C39_Witness ==
    /\ last.op = "add"
    /\ last.exc = "ValueError"
    /\ model.current_id_counter = 10 ^ MAX_ID_LEN
    /\ Len(model.objects) >= 1

\* C32: update_priority and _update_priority on an id that is not in index_map raise
\* ValueError and leave heap, index_map and ip_to_sessions as they were
C32_UnknownIdRaises ==
    [][ (last'.op \in {"update_priority", "_update_priority"} /\ last'.target \notin DOMAIN index_map)
          => /\ last'.exc = "ValueError"
             /\ heap' = heap
             /\ index_map' = index_map
             /\ ip_to_sessions' = ip_to_sessions ]_vars

C32_Witness ==
    /\ last.op = "update_priority"
    /\ last.target \notin DOMAIN index_map
    /\ last.exc = "ValueError"
    /\ last.ip = V4A
    /\ Len(heap) >= 2
    /\ V4A \in DOMAIN ip_to_sessions

\* C38: after every completed push, pop, update_priority and get_storage no key of
\* ip_to_sessions has an empty list
C38_NoEmptyLists ==
    (last.op \in {"push", "pop", "update_priority", "get_storage"} /\ last.exc = NoExc)
        => \A ip \in DOMAIN ip_to_sessions : Len(ip_to_sessions[ip]) > 0

\* a pop removed the only session of the IPv4 address while other sessions are live
C38_Witness ==
    /\ last.op = "pop" /\ last.exc = NoExc
    /\ last.ret # <<>>
    /\ last.ret[1].ip = V4A
    /\ V4A \notin DOMAIN ip_to_sessions
    /\ Len(heap) >= 1

\* C37: touching a live session from the normalised address it is recorded under moves its
\* id to the end of that address's list and changes nothing else in the address index: the
\* list keeps its members, the other lists are unchanged and no session is evicted
SameAddressTouch ==
    /\ last'.op \in {"get_storage", "update_priority"}
    /\ last'.exc = NoExc
    /\ last'.ip # NoIp
    /\ last'.target \in DOMAIN index_map
    /\ _normalize_ip_for_limiting(At(heap, index_map[last'.target]).ip)
          = _normalize_ip_for_limiting(last'.ip)

C37_SameAddressTouch ==
    [][ SameAddressTouch =>
          LET a == _normalize_ip_for_limiting(last'.ip) IN
          /\ DOMAIN ip_to_sessions' = DOMAIN ip_to_sessions
          /\ a \in DOMAIN ip_to_sessions
          /\ ip_to_sessions'[a][Len(ip_to_sessions'[a])] = last'.target
          /\ SeqSet(ip_to_sessions'[a]) = SeqSet(ip_to_sessions[a])
          /\ Filter(ip_to_sessions'[a], last'.target) = Filter(ip_to_sessions[a], last'.target)
          /\ \A b \in DOMAIN ip_to_sessions \ {a} : ip_to_sessions'[b] = ip_to_sessions[b]
          /\ DOMAIN index_map' = DOMAIN index_map ]_vars

\* C31: when a live session recorded under address A is touched from a different normalised
\* address B, afterwards its recorded owner address is B, it is the last element of B's list,
\* it is in no list of A (A's entry is deleted if it became empty), and B's list has at most
\* MAX_SESSIONS_PER_IP entries
OtherAddressTouch ==
    /\ last'.op \in {"get_storage", "update_priority"}
    /\ last'.exc = NoExc
    /\ last'.ip # NoIp
    /\ last'.target \in DOMAIN index_map
    /\ At(heap, index_map[last'.target]).ip # NoIp
    /\ _normalize_ip_for_limiting(At(heap, index_map[last'.target]).ip)
          # _normalize_ip_for_limiting(last'.ip)

C31_Reattribution ==
    [][ OtherAddressTouch =>
          LET a == _normalize_ip_for_limiting(At(heap, index_map[last'.target]).ip)
              b == _normalize_ip_for_limiting(last'.ip)
          IN /\ last'.target \in DOMAIN index_map'
             /\ At(heap', index_map'[last'.target]).ip = b
             /\ b \in DOMAIN ip_to_sessions'
             /\ ip_to_sessions'[b][Len(ip_to_sessions'[b])] = last'.target
             /\ Len(ip_to_sessions'[b]) <= MAX_SESSIONS_PER_IP
             /\ a \in DOMAIN ip_to_sessions' =>
                   /\ last'.target \notin SeqSet(ip_to_sessions'[a])
                   /\ Len(ip_to_sessions'[a]) > 0 ]_vars

\* C35: a get_storage call that creates a session evicts at most two existing sessions:
\* first the globally oldest one if MAX_SESSIONS sessions are live, then the front session of
\* the caller's address list if that list would exceed MAX_SESSIONS_PER_IP; when the globally
\* oldest session is in the caller's list and the list is exactly at the cap, only that
\* session is evicted
CreatingCall ==
    last'.op = "get_storage" /\ last'.created /\ last'.exc = NoExc

GloballyOldest == CHOOSE g \in Live : \A s \in Live : touched[g] <= touched[s]

CallerList(a, gone) ==
    IF a \in DOMAIN ip_to_sessions
    THEN SelectSeq(ip_to_sessions[a], LAMBDA s : s \notin gone)
    ELSE <<>>

C35_AtMostTwoEvictions ==
    [][ CreatingCall =>
          LET a == _normalize_ip_for_limiting(last'.ip)
              full == Cardinality(Live) >= MAX_SESSIONS
              gone == IF full THEN {GloballyOldest} ELSE {}
              rest == IF last'.ip = NoIp THEN <<>> ELSE CallerList(a, gone)
              over == Len(rest) >= MAX_SESSIONS_PER_IP
              expected == (IF full THEN <<[kind |-> "global", id |-> GloballyOldest]>> ELSE <<>>)
                          \o (IF over THEN <<[kind |-> "address", id |-> rest[1]]>> ELSE <<>>)
          IN /\ Cardinality(Live \ Live') <= 2
             /\ Len(last'.log) = Len(expected)
             /\ \A i \in 1..Len(expected) :
                   /\ last'.log[i].kind = expected[i].kind
                   /\ last'.log[i].id = expected[i].id
             /\ Live \ Live' = {expected[i].id : i \in 1..Len(expected)}
             /\ over => _normalize_ip_for_limiting(ItemOf(rest[1]).ip) = a
             /\ (full /\ last'.ip # NoIp /\ a \in DOMAIN ip_to_sessions
                   /\ GloballyOldest \in SeqSet(ip_to_sessions[a])
                   /\ Len(ip_to_sessions[a]) = MAX_SESSIONS_PER_IP)
                => Live \ Live' = {GloballyOldest} ]_vars

\* C36: when bind_jwt_to_session_id evicts a binding of another token and another session,
\* the victim is the binding that was bound earliest among those in the table; a get_storage
\* that resolves its session through a token changes neither the table nor the order in
\* which its bindings were bound, so it never changes which binding is evicted next
RECURSIVE FirstOccurrences(_)
FirstOccurrences(s) ==
    IF s = <<>> THEN <<>>
    ELSE <<Head(s)>> \o FirstOccurrences(Filter(Tail(s), Head(s)))

BindOrder == FirstOccurrences(jwt_to_session_order)

HoldsUser(s, email, password) ==
    \E k \in 1..Len(ModelValues(storages[ItemOf(s).data].users)) :
       LET user == ModelValues(storages[ItemOf(s).data].users)[k]
       IN user.email = email /\ user.password = hash_password(password)

C33_LoginFindsLiveUser ==
    [][ (/\ last'.op = "login"
         /\ \E s \in Live : HoldsUser(s, last'.credentials[1], last'.credentials[2]))
        => /\ last'.status = 200
           /\ last'.user[1].email = last'.credentials[1] ]_vars

\* C34: a token that resolves, through get_storage, to the store in which the user it was
\* handed out for lives keeps resolving to that store only: a register or login of a request
\* that does not carry the token never leaves it bound to a session of a different store
TokenStore(t) == ItemOf(jwt_to_session[t]).data

OwnToken(t) ==
    /\ t \in DOMAIN jwt_to_session
    /\ jwt_to_session[t] \in Live
    /\ \E k \in 1..Len(ModelValues(storages[TokenStore(t)].users)) :
          ModelValues(storages[TokenStore(t)].users)[k].token = t

C34_TokenIsolation ==
    [][ \A t \in DOMAIN jwt_to_session :
          (/\ last'.op \in {"register", "login"}
           /\ last'.token # t
           /\ OwnToken(t)
           /\ t \in DOMAIN jwt_to_session'
           /\ jwt_to_session'[t] \in DOMAIN index_map')
          => At(heap', index_map'[jwt_to_session'[t]]).data = TokenStore(t) ]_vars

====
